---- MODULE Spec2Model ----
(***************************************************************************)
(* A model of the multi-chain wallet tracker: the three chain subscribers  *)
(* (ethereum, bitcoin, solana), their wallet registries and the subscriber *)
(* manager that dispatches Track/Untrack and fans the event channels in.   *)
(*                                                                         *)
(* Wallet strings are sequences of one-character strings so that the       *)
(* validation and canonicalisation code can be followed character by       *)
(* character.  Address widths are scaled down (see AddressLength and       *)
(* PublicKeyLength); the algorithms are those of the code.                 *)
(***************************************************************************)
EXTENDS Integers, Sequences, FiniteSets, TLC

VARIABLES
    subs,       \* mapSubManager.subs: ChainName -> subscriber instance (or NoSub)
    reg,        \* registeredWallets of every subscriber instance
    lastCall,   \* the last API call made and what it returned (observation)
    evm,        \* the goroutine of ethereumMainnetSubscriber.Start
    btc,        \* the goroutine of bitcoinSubscriber.Start
    sol,        \* the polling goroutine of solanaMainnetSubscriber.Start
    wk,         \* the fetchBlock goroutines of the solana subscriber, by slot
    mgr,        \* the call of mapSubManager.StartAll
    fan,        \* the fan-in goroutines of StartAll, by chain
    prod,       \* the subscribers' goroutines as StartAll sees them, by chain
    events,     \* what is buffered in each subscriber's events channel
    delivered,  \* what the caller has received from the sink, by chain (observation)
    api,        \* the request the http server is handling and its response
    locks       \* the registry's RWMutex of the subscriber under study and its users

ingestVars == <<evm, btc, sol, wk>>

mgrVars == <<mgr, fan, prod, events, delivered>>

vars ==
    <<subs, reg, lastCall, evm, btc, sol, wk, mgr, fan, prod, events, delivered, api,
      locks>>

----------------------------------------------------------------------------
(* Chain names and subscriber instances *)

EthereumMainnet == "ethereum_mainnet"
Bitcoin == "bitcoin"
SolanaMainnet == "solana_mainnet"

ChainNames == {EthereumMainnet, Bitcoin, SolanaMainnet}

\* The subscriber objects the program can construct.  Two ethereum
\* subscribers exist so that a second registration for one chain is possible.
Instances == {"eth1", "eth2", "btc1", "sol1"}

NoSub == "none"
NoErr == "nil"

\* TransactionSubscriber.Name of each implementation
Name(inst) ==
    CASE inst \in {"eth1", "eth2"} -> EthereumMainnet
      [] inst = "btc1" -> Bitcoin
      [] inst = "sol1" -> SolanaMainnet

----------------------------------------------------------------------------
(* Characters *)

UpperLetters == <<"A","B","C","D","E","F","G","H","I","J","K","L","M",
                  "N","O","P","Q","R","S","T","U","V","W","X","Y","Z">>
LowerLetters == <<"a","b","c","d","e","f","g","h","i","j","k","l","m",
                  "n","o","p","q","r","s","t","u","v","w","x","y","z">>

IndexIn(seq, c) ==
    IF \E i \in 1..Len(seq) : seq[i] = c
    THEN CHOOSE i \in 1..Len(seq) : seq[i] = c
    ELSE 0

\* unicode.ToLower on one ASCII character
ToLowerChar(c) ==
    IF IndexIn(UpperLetters, c) > 0 THEN LowerLetters[IndexIn(UpperLetters, c)] ELSE c

\* strings.ToLower
ToLower(s) == [i \in 1..Len(s) |-> ToLowerChar(s[i])]

HexDigits == <<"0","1","2","3","4","5","6","7","8","9","a","b","c","d","e","f">>

\* go-ethereum common.isHexCharacter
isHexCharacter(c) == IndexIn(HexDigits, ToLowerChar(c)) > 0

\* fromHexChar reading the digit as written, without folding its case
fromHexCharAsWritten(c) == IndexIn(HexDigits, c) - 1

\* value of one hex digit (encoding/hex.fromHexChar)
fromHexChar(c) == IndexIn(HexDigits, ToLowerChar(c)) - 1

----------------------------------------------------------------------------
(* Ethereum addresses: validateEvmWallet *)

\* common.AddressLength is 20 bytes in go-ethereum; the model scales the
\* address down to one byte (two hex digits).
AddressLength == 1

\* go-ethereum common.has0xPrefix
has0xPrefix(s) == Len(s) >= 2 /\ s[1] = "0" /\ s[2] \in {"x", "X"}

StripHexPrefix(s) == IF has0xPrefix(s) THEN SubSeq(s, 3, Len(s)) ELSE s

\* go-ethereum common.IsHexAddress
IsHexAddress(s) ==
    LET h == StripHexPrefix(s)
    IN  /\ Len(h) = 2 * AddressLength
        /\ \A i \in 1..Len(h) : isHexCharacter(h[i])

\* go-ethereum common.HexToAddress on a string IsHexAddress accepts: the
\* address bytes, written here as the sequence of their hex digit values.
HexToAddress(s) ==
    LET h == StripHexPrefix(s)
    IN  [i \in 1..Len(h) |-> fromHexChar(h[i])]

validateEvmWallet(wallet) ==
    IF ~IsHexAddress(wallet)
    THEN [err |-> "invalid ethereum wallet address", addr |-> <<>>]
    ELSE [err |-> NoErr, addr |-> HexToAddress(wallet)]

----------------------------------------------------------------------------
(* Bitcoin addresses: validateBtcAddress *)

\* The strings btcutil.DecodeAddress accepts for the main network, among the
\* wallet strings of the model.  The checksum arithmetic is not modelled:
\* this is the set of strings whose checksum is right.  The first two are
\* base58 addresses that differ only in letter case, the last two the same
\* segwit address in its lower-case and its upper-case writing.
BtcDecodable ==
    { <<"1","A","b">>, <<"1","a","B">>, <<"b","c","1","q">>, <<"B","C","1","Q">> }

IsBech32(s) == Len(s) >= 3 /\ ToLower(SubSeq(s, 1, 3)) = <<"b","c","1">>

\* btcutil.Address.String of a decoded address: a base58 address encodes back
\* to the string it was decoded from, a segwit address to its lower-case form.
BtcAddressString(s) == IF IsBech32(s) THEN ToLower(s) ELSE s

validateBtcAddress(address) ==
    IF address \notin BtcDecodable
    THEN [err |-> "invalid btc address", addr |-> <<>>]
    ELSE [err |-> NoErr, addr |-> BtcAddressString(address)]

----------------------------------------------------------------------------
(* Solana addresses: validateSolanaWallet *)

Base58Alphabet ==
    <<"1","2","3","4","5","6","7","8","9",
      "A","B","C","D","E","F","G","H","J","K","L","M","N","P","Q","R","S","T",
      "U","V","W","X","Y","Z",
      "a","b","c","d","e","f","g","h","i","j","k","m","n","o","p","q","r","s",
      "t","u","v","w","x","y","z">>

\* common.PublicKeyLength is 32 bytes in solana-go-sdk; the model scales the
\* key down to two bytes.
PublicKeyLength == 2

RECURSIVE Base58Value(_)
\* the number a base58 digit string writes (most significant digit first)
Base58Value(s) ==
    IF Len(s) = 0 THEN 0
    ELSE Base58Value(SubSeq(s, 1, Len(s) - 1)) * 58
            + (IndexIn(Base58Alphabet, s[Len(s)]) - 1)

RECURSIVE BigEndianBytes(_)
\* big.Int.Bytes: the minimal big-endian bytes of n (none for 0)
BigEndianBytes(n) ==
    IF n = 0 THEN <<>> ELSE Append(BigEndianBytes(n \div 256), n % 256)

RECURSIVE LeadingOnes(_)
LeadingOnes(s) ==
    IF Len(s) > 0 /\ s[1] = "1" THEN 1 + LeadingOnes(Tail(s)) ELSE 0

\* mr-tron/base58 Decode: an error for a character outside the alphabet,
\* otherwise one zero byte per leading "1" followed by the bytes of the value.
Base58Decode(s) ==
    IF \E i \in 1..Len(s) : IndexIn(Base58Alphabet, s[i]) = 0
    THEN [err |-> "invalid base58 digit", bytes |-> <<>>]
    ELSE [err |-> NoErr,
          bytes |-> [i \in 1..LeadingOnes(s) |-> 0] \o BigEndianBytes(Base58Value(s))]

\* solana-go-sdk common.PublicKeyFromBytes: longer input is cut to its first
\* PublicKeyLength bytes, shorter input is right-aligned in a zero key.
PublicKeyFromBytes(b) ==
    LET c == IF Len(b) > PublicKeyLength THEN SubSeq(b, 1, PublicKeyLength) ELSE b
    IN  [i \in 1..(PublicKeyLength - Len(c)) |-> 0] \o c

validateSolanaWallet(wallet) ==
    LET d == Base58Decode(wallet)
    IN  IF d.err # NoErr
        THEN [err |-> "invalid wallet address", addr |-> <<>>]
        ELSE [err |-> NoErr, addr |-> PublicKeyFromBytes(d.bytes)]

----------------------------------------------------------------------------
(* Wallet strings handed to Track/Untrack *)

\* "0xAB" and "ab" write the same address, "0xcd" another one; "0xa" is
\* too short and "0xgh" is not hexadecimal.
EvmWallets ==
    { <<"0","x","A","B">>, <<"a","b">>, <<"0","x","c","d">>,
      <<"0","x","a">>, <<"0","x","g","h">> }

\* two base58 addresses that differ only in letter case, a segwit address in
\* upper case, and a string whose checksum is wrong
BtcWallets == { <<"1","A","b">>, <<"1","a","B">>, <<"B","C","1","Q">>, <<"1","A","x">> }

\* "Ah" and "12" decode to PublicKeyLength bytes; "2" decodes to one byte
\* and "jma" to three; "0x" has a character outside the base58 alphabet.
SolWallets ==
    { <<"A","h">>, <<"1","2">>, <<"2">>, <<"j","m","a">>, <<"0","x">> }

WalletsOf(chain) ==
    CASE chain = EthereumMainnet -> EvmWallets
      [] chain = Bitcoin -> BtcWallets
      [] chain = SolanaMainnet -> SolWallets

----------------------------------------------------------------------------
(* TrackWallet / UntrackWallet of the three subscribers.  Each takes the     *)
(* registry R and returns the error and the registry after the call.        *)

EthTrackWallet(R, wallet) ==
    LET v == validateEvmWallet(wallet)
    IN  IF v.err # NoErr THEN [err |-> v.err, reg |-> R]
        ELSE [err |-> NoErr, reg |-> R \cup {v.addr}]

EthUntrackWallet(R, wallet) ==
    LET v == validateEvmWallet(wallet)
    IN  IF v.err # NoErr THEN [err |-> v.err, reg |-> R]
        ELSE [err |-> NoErr, reg |-> R \ {v.addr}]

BtcTrackWallet(R, wallet) ==
    LET v == validateBtcAddress(wallet)
    IN  IF v.err # NoErr THEN [err |-> v.err, reg |-> R]
        ELSE [err |-> NoErr, reg |-> R \cup {ToLower(v.addr)}]

\* BtcUntrackWallet deleting the address as written, not its lower-case form
BtcUntrackWalletAsWritten(R, wallet) ==
    LET v == validateBtcAddress(wallet)
    IN  IF v.err # NoErr THEN [err |-> v.err, reg |-> R]
        ELSE [err |-> NoErr, reg |-> R \ {v.addr}]

BtcUntrackWallet(R, wallet) ==
    LET v == validateBtcAddress(wallet)
    IN  IF v.err # NoErr THEN [err |-> v.err, reg |-> R]
        ELSE [err |-> NoErr, reg |-> R \ {ToLower(v.addr)}]

SolTrackWallet(R, wallet) ==
    LET v == validateSolanaWallet(wallet)
    IN  IF v.err # NoErr THEN [err |-> v.err, reg |-> R]
        ELSE [err |-> NoErr, reg |-> R \cup {v.addr}]

SolUntrackWallet(R, wallet) ==
    LET v == validateSolanaWallet(wallet)
    IN  IF v.err # NoErr THEN [err |-> v.err, reg |-> R]
        ELSE [err |-> NoErr, reg |-> R \ {v.addr}]

\* TransactionSubscriber.TrackWallet, dispatched on the implementation
SubTrackWallet(inst, R, wallet) ==
    CASE Name(inst) = EthereumMainnet -> EthTrackWallet(R, wallet)
      [] Name(inst) = Bitcoin -> BtcTrackWallet(R, wallet)
      [] Name(inst) = SolanaMainnet -> SolTrackWallet(R, wallet)

\* TransactionSubscriber.UntrackWallet, dispatched on the implementation
SubUntrackWallet(inst, R, wallet) ==
    CASE Name(inst) = EthereumMainnet -> EthUntrackWallet(R, wallet)
      [] Name(inst) = Bitcoin -> BtcUntrackWallet(R, wallet)
      [] Name(inst) = SolanaMainnet -> SolUntrackWallet(R, wallet)

----------------------------------------------------------------------------
(* Events, and the state of the subscriber goroutines before Start *)

\* a nil *common.Address, a sender that could not be recovered, a script
\* from which no address could be extracted
NoAddr == <<>>

NoTx == [none |-> TRUE]

\* TrackedWalletEvent: the strings are sequences of characters, the big.Int
\* amounts are integers
TrackedWalletEvent(chain, source, destination, amount, fees) ==
    [ChainName |-> chain, Source |-> source, Destination |-> destination,
     Amount |-> amount, Fees |-> fees]

NoEvent == TrackedWalletEvent(NoSub, <<>>, <<>>, 0, 0)

\* The block a goroutine is processing: the number of transactions taken
\* from it so far and the one in progress; and what is observed of it: the
\* events placed on the events channel for the transaction in progress, the
\* number of events placed for the block, the addresses its transactions so
\* far are matched on, and the registry keys added or removed since the
\* block was fetched.
NoBlock ==
    [ntx |-> 0, tx |-> NoTx, sent |-> <<>>, blkSent |-> 0, keys |-> {}, dirty |-> {}]

\* the most transactions in one ethereum or bitcoin block
MaxTxs == 2

\* the most errors the new-head subscription reports
MaxSubErrs == 2

\* errs counts the sends on outErrors and err is the error sent last, or
\* about to be sent; fetchFailed tells that a blockByNumber call has failed
\* and skipped counts the transactions of the block in progress whose sender
\* was not recovered (observation)
EvmIdle ==
    [pc |-> "idle", ev |-> NoEvent, obs |-> NoBlock, errs |-> 0, err |-> NoErr,
     fetchFailed |-> FALSE, skipped |-> 0]

\* tip0 is the block count Init read, heights lists the heights of the
\* blocks fetched for processing and err is the error an RPC call of the
\* tick in progress returned, sent or about to be sent (observation)
BtcIdle ==
    [pc |-> "idle", lastBlockNum |-> 0, hashOk |-> TRUE, i |-> 0, ev |-> NoEvent,
     obs |-> NoBlock, tip0 |-> 0, heights |-> <<>>, err |-> NoErr]

\* the highest finalized slot the node reports
MaxSlot == 2

Slots == 0..(MaxSlot - 1)

\* The solana subscriber after Init found the finalized slot n: currentSlot
\* is n; slot is the local of the polling goroutine, the answer of its last
\* getSlot; first keeps the slot Init found and launched counts, per slot,
\* the fetchBlock goroutines launched.
SolInit(n) ==
    [pc |-> "idle", currentSlot |-> n, slot |-> n, first |-> n,
     launched |-> [s \in Slots |-> 0]]

SolIdle == SolInit(0)

\* No fetchBlock goroutine has been launched for the slot.  fetches counts
\* the calls of s.getBlock for the slot, skipped the transactions of the
\* block passed over by a continue, and err is the error fetchBlock returned,
\* which its caller logs.
WkNone ==
    [pc |-> "none", i |-> 0, ev |-> NoEvent, obs |-> NoBlock,
     fetches |-> 0, skipped |-> 0, err |-> NoErr]

\* the most transactions in one block of a slot
MaxSolTxs == 1

WkIdle == [s \in Slots |-> WkNone]

IngestIdle ==
    /\ evm = EvmIdle
    /\ btc = BtcIdle
    /\ sol = SolIdle
    /\ wk = WkIdle

\* StartAll not called: no fan-in goroutine, nothing started through the manager
NoFan == [pc |-> "none", ev |-> 0, err |-> NoErr]

NoProd == [pc |-> "idle", resume |-> "idle", err |-> NoErr, n |-> 0,
           workers |-> FALSE, logged |-> <<>>]

NoStartAll ==
    [pc |-> "idle", todo |-> {}, starts |-> [c \in ChainNames |-> 0],
     sent |-> 0, got |-> 0, first |-> NoErr, ret |-> NoErr]

MgrIdle ==
    /\ mgr = NoStartAll
    /\ fan = [c \in ChainNames |-> NoFan]
    /\ prod = [c \in ChainNames |-> NoProd]
    /\ events = [c \in ChainNames |-> <<>>]
    /\ delivered = [c \in ChainNames |-> <<>>]

\* The http server with no request received
NoRequest ==
    [pc |-> "idle", op |-> "none", req |-> <<>>, i |-> 0, calls |-> <<>>,
     before |-> [inst \in Instances |-> {}], status |-> 0, body |-> <<>>]

\* No subscriber's lock is followed.  chain is the subscriber followed; w
\* tells that the write lock is held and r is the set of goroutines holding
\* the read lock; g is the position of each goroutine that processes blocks
\* (one per slot for solana) with ok, the answer of its last lookup; call is
\* the TrackWallet or UntrackWallet call in progress.  Two observations:
\* stale tells that the wallet was deleted after the lookup of the event the
\* goroutine is sending, late counts the events the goroutine sent since
\* the wallet was deleted.
NoLocks ==
    [chain |-> NoSub, w |-> FALSE, r |-> {},
     g |-> [id \in Slots |->
             [pc |-> "none", ok |-> FALSE, stale |-> FALSE, late |-> 0]],
     call |-> [pc |-> "idle", op |-> "none"]]

----------------------------------------------------------------------------
(* The subscriber manager: RegisterSubscribers, TrackWallet, UntrackWallet *)

\* the longest argument list given to RegisterSubscribers
MaxRegArgs == 2

RegArgs == UNION { [1..n -> Instances] : n \in 1..MaxRegArgs }

RECURSIVE RegisterLoopOverwrite(_, _, _, _, _)
\* RegisterLoop without the test for a chain that is already present: a later
\* subscriber replaces the one registered before.
RegisterLoopOverwrite(args, failAt, i, m, inits) ==
    IF i > Len(args) THEN [err |-> NoErr, subs |-> m, inits |-> inits]
    ELSE IF i = failAt
    THEN [err |-> "initializing subscriber",
          subs |-> m, inits |-> Append(inits, args[i])]
    ELSE RegisterLoopOverwrite(args, failAt, i + 1,
                               [m EXCEPT ![Name(args[i])] = args[i]],
                               Append(inits, args[i]))

RECURSIVE RegisterLoopStoreFirst(_, _, _, _, _)
\* RegisterLoop with the subscriber put in the map before its Init is called
RegisterLoopStoreFirst(args, failAt, i, m, inits) ==
    IF i > Len(args) THEN [err |-> NoErr, subs |-> m, inits |-> inits]
    ELSE LET subscriber == args[i]
             chain == Name(subscriber)
         IN  IF m[chain] # NoSub
             THEN [err |-> "subscriber already exists", subs |-> m, inits |-> inits]
             ELSE IF i = failAt
             THEN [err |-> "initializing subscriber",
                   subs |-> [m EXCEPT ![chain] = subscriber],
                   inits |-> Append(inits, subscriber)]
             ELSE RegisterLoopStoreFirst(args, failAt, i + 1,
                                         [m EXCEPT ![chain] = subscriber],
                                         Append(inits, subscriber))

RECURSIVE RegisterLoop(_, _, _, _, _)
\* The loop of RegisterSubscribers from argument i on: m is the map so far,
\* inits the subscribers whose Init has been invoked so far; the Init of
\* argument failAt (if it is reached) returns an error, every other succeeds.
RegisterLoop(args, failAt, i, m, inits) ==
    IF i > Len(args) THEN [err |-> NoErr, subs |-> m, inits |-> inits]
    ELSE LET subscriber == args[i]
             chain == Name(subscriber)
         IN  IF m[chain] # NoSub
             THEN [err |-> "subscriber already exists", subs |-> m, inits |-> inits]
             ELSE IF i = failAt
             THEN [err |-> "initializing subscriber",
                   subs |-> m, inits |-> Append(inits, subscriber)]
             ELSE RegisterLoop(args, failAt, i + 1,
                               [m EXCEPT ![chain] = subscriber],
                               Append(inits, subscriber))

\* MgrTrackWallet looking the subscriber up by its Name among all subscriber
\* objects instead of in the map of registered ones.
MgrTrackWalletByName(m, regs, wallet, chain) ==
    LET sub == CHOOSE i \in Instances : Name(i) = chain
        r == SubTrackWallet(sub, regs[sub], wallet)
    IN  [err |-> r.err, reg |-> [regs EXCEPT ![sub] = r.reg]]

\* mapSubManager.TrackWallet: the error and the registries after the call
MgrTrackWallet(m, regs, wallet, chain) ==
    IF m[chain] # NoSub
    THEN LET r == SubTrackWallet(m[chain], regs[m[chain]], wallet)
         IN  [err |-> r.err, reg |-> [regs EXCEPT ![m[chain]] = r.reg]]
    ELSE [err |-> "no registered subscriber for chain", reg |-> regs]

\* mapSubManager.UntrackWallet
MgrUntrackWallet(m, regs, wallet, chain) ==
    IF m[chain] # NoSub
    THEN LET r == SubUntrackWallet(m[chain], regs[m[chain]], wallet)
         IN  [err |-> r.err, reg |-> [regs EXCEPT ![m[chain]] = r.reg]]
    ELSE [err |-> "no registered subscriber for chain", reg |-> regs]

NoCall ==
    [op |-> "none", chain |-> NoSub, inst |-> NoSub, wallet |-> <<>>, args |-> <<>>,
     err |-> NoErr, inits |-> <<>>, after |-> FALSE, before |-> {}, failAt |-> 0]

\* NewSubsciberManager and the subscriber constructors: an empty map, empty
\* registries
InitRegister ==
    /\ subs = [c \in ChainNames |-> NoSub]
    /\ reg = [i \in Instances |-> {}]
    /\ lastCall = NoCall
    /\ IngestIdle
    /\ MgrIdle
    /\ api = NoRequest
    /\ locks = NoLocks

\* A call of RegisterSubscribers(args...)
RegisterSubscribers ==
    \E args \in RegArgs :
      \E failAt \in 0..Len(args) :
        LET r == RegisterLoop(args, failAt, 1, subs, <<>>)
        IN  /\ subs' = r.subs
            /\ lastCall' = [NoCall EXCEPT !.op = "register", !.args = args,
                                          !.err = r.err, !.inits = r.inits,
                                          !.failAt = failAt]
            /\ UNCHANGED <<api, locks, mgrVars, reg, ingestVars>>

NextRegister == RegisterSubscribers

\* The manager from its construction on, under any sequence of
\* RegisterSubscribers calls.
SpecRegister == InitRegister /\ [][NextRegister]_vars

\* The maps RegisterSubscribers can build: per chain no subscriber or one
\* subscriber of that chain.
RegisteredMaps ==
    { m \in [ChainNames -> Instances \cup {NoSub}] :
        \A c \in ChainNames : m[c] # NoSub => Name(m[c]) = c }

\* The manager after registration, with empty registries
InitTrack ==
    /\ subs \in RegisteredMaps
    /\ reg = [i \in Instances |-> {}]
    /\ lastCall = NoCall
    /\ IngestIdle
    /\ MgrIdle
    /\ api = NoRequest
    /\ locks = NoLocks

\* A call of the manager's TrackWallet(wallet, chain).  lastCall.before is the
\* registry of the chain's subscriber before the call.
TrackWallet ==
    \E chain \in ChainNames :
      \E wallet \in WalletsOf(chain) :
        LET r == MgrTrackWallet(subs, reg, wallet, chain)
        IN  /\ reg' = r.reg
            /\ lastCall' = [NoCall EXCEPT
                              !.op = "track", !.chain = chain, !.inst = subs[chain],
                              !.wallet = wallet, !.err = r.err,
                              !.before = IF subs[chain] = NoSub THEN {}
                                         ELSE reg[subs[chain]]]
            /\ UNCHANGED <<api, locks, mgrVars, subs, ingestVars>>

\* The call before this one was a TrackWallet of the same wallet on the same
\* chain, and it returned nil.
AfterTrack(chain, wallet) ==
    /\ lastCall.op = "track" /\ lastCall.err = NoErr
    /\ lastCall.chain = chain /\ lastCall.wallet = wallet

\* A call of the manager's UntrackWallet(wallet, chain).  lastCall.after tells
\* whether it directly follows the TrackWallet of the same wallet, and then
\* lastCall.before is the registry before that TrackWallet.
UntrackWallet ==
    \E chain \in ChainNames :
      \E wallet \in WalletsOf(chain) :
        LET r == MgrUntrackWallet(subs, reg, wallet, chain)
        IN  /\ reg' = r.reg
            /\ lastCall' = [NoCall EXCEPT
                              !.op = "untrack", !.chain = chain, !.inst = subs[chain],
                              !.wallet = wallet, !.err = r.err,
                              !.after = AfterTrack(chain, wallet),
                              !.before = IF AfterTrack(chain, wallet)
                                         THEN lastCall.before ELSE {}]
            /\ UNCHANGED <<api, locks, mgrVars, subs, ingestVars>>

NextTrack == TrackWallet \/ UntrackWallet

\* The registered manager under any sequence of TrackWallet and
\* UntrackWallet calls.
SpecTrack == InitTrack /\ [][NextTrack]_vars

----------------------------------------------------------------------------
(* ethereumMainnetSubscriber.Start: the goroutine *)

\* uint64 and int64 are 64 bits wide; the model scales the word down.
WordBits == 6

\* big.Int.Uint64 and uint64 arithmetic: the low WordBits bits
Uint64(n) == n % (2 ^ WordBits)

\* the conversion int64(u) of an unsigned word
Int64(u) == IF u >= 2 ^ (WordBits - 1) THEN u - 2 ^ WordBits ELSE u

\* common.Address.String: "0x" and the hex digits (the mixed-case checksum
\* of the digits is not modelled, the digits are written in lower case)
AddressString(a) == <<"0", "x">> \o [i \in 1..Len(a) |-> HexDigits[a[i] + 1]]

\* The transactions a block can hold, by what the subscriber reads of them:
\* from is the sender types.Sender recovers (NoAddr when it returns an
\* error), to is tx.To() (NoAddr for a contract creation).  The last two
\* have a gas price and a gas limit whose product does not fit an int64,
\* and for the gas limit 8 not a uint64 either.
EvmTxs ==
    { [from |-> f, to |-> t, value |-> 7, gasPrice |-> 3, gas |-> 2] :
        <<f, t>> \in { << <<10, 11>>, <<12, 13>> >>, << <<12, 13>>, <<10, 11>> >>,
                       << <<10, 11>>, <<10, 11>> >>, << <<10, 11>>, NoAddr >>,
                       << <<12, 13>>, NoAddr >>, << NoAddr, <<10, 11>> >> } }
    \cup
    { [from |-> <<10, 11>>, to |-> <<12, 13>>, value |-> 7, gasPrice |-> 9, gas |-> g] :
        g \in {5, 8} }

\* fees := big.NewInt(int64(tx.GasPrice().Uint64() * tx.Gas()))
EvmFees(tx) == Int64(Uint64(Uint64(tx.gasPrice) * tx.gas))

\* the addresses a transaction is matched on: the recovered sender and the
\* recipient, as registry keys
EvmMatchKeys(tx) == {tx.from, tx.to} \ {NoAddr}

\* EvmMatch without the recipient's lookup
EvmMatchSenderOnly(R, tx) == tx.from \in R

\* EvmMatch answering yes for every transaction
EvmMatchAlways(R, tx) == TRUE

\* okSender || okRecipient, read under the read lock
EvmMatch(R, tx) == tx.from \in R \/ (tx.to # NoAddr /\ tx.to \in R)

\* a goroutine of the process has panicked: the process is gone
Crashed ==
    \/ evm.pc = "panic"
    \/ btc.pc = "panic"
    \/ \E s \in DOMAIN wk : wk[s].pc = "panic"

NotStarted == evm.pc = "idle" /\ btc.pc = "idle" /\ sol.pc = "idle"

\* Start(): the goroutine is launched
EvmStart ==
    /\ NotStarted
    /\ evm' = [evm EXCEPT !.pc = "subscribe"]
    /\ UNCHANGED <<api, locks, mgrVars, subs, reg, lastCall, btc, sol, wk>>

\* e.subscribeNewHead(ctx, h)
EvmSubscribe ==
    /\ evm.pc = "subscribe"
    /\ \E ok \in BOOLEAN :
         evm' = IF ok THEN [evm EXCEPT !.pc = "select"]
                ELSE [evm EXCEPT !.pc = "sendSubscribeErr",
                                 !.err = "failed to subscribe to new head"]
    /\ UNCHANGED <<api, locks, mgrVars, subs, reg, lastCall, btc, sol, wk>>

\* EvmSendSubscribeErr without the return: the goroutine enters its loop
EvmSendSubscribeErrGoOn ==
    /\ evm.pc = "sendSubscribeErr"
    /\ evm' = [evm EXCEPT !.pc = "select", !.errs = @ + 1]
    /\ UNCHANGED <<api, locks, mgrVars, subs, reg, lastCall, btc, sol, wk>>

\* outErrors <- "failed to subscribe to new head"; return
EvmSendSubscribeErr ==
    /\ evm.pc = "sendSubscribeErr"
    /\ evm' = [evm EXCEPT !.pc = "exited", !.errs = @ + 1]
    /\ UNCHANGED <<api, locks, mgrVars, subs, reg, lastCall, btc, sol, wk>>

\* case err := <-sub.Err()
EvmSubscriptionErr ==
    /\ evm.pc = "select"
    /\ evm.errs < MaxSubErrs
    /\ evm' = [evm EXCEPT !.pc = "sendErr", !.err = "subscription error"]
    /\ UNCHANGED <<api, locks, mgrVars, subs, reg, lastCall, btc, sol, wk>>

\* outErrors <- err, after which the loop goes on
EvmSendErr ==
    /\ evm.pc = "sendErr"
    /\ evm' = [evm EXCEPT !.pc = "select", !.errs = @ + 1]
    /\ UNCHANGED <<api, locks, mgrVars, subs, reg, lastCall, btc, sol, wk>>

\* EvmNewHead sending the error of a failed blockByNumber on outErrors
EvmNewHeadReportsFailure ==
    /\ evm.pc = "select"
    /\ \E ok \in BOOLEAN :
         evm' = IF ok THEN [evm EXCEPT !.pc = "txloop", !.obs = NoBlock]
                ELSE [evm EXCEPT !.fetchFailed = TRUE, !.pc = "sendErr",
                                 !.err = "failed to get block by number"]
    /\ UNCHANGED <<api, locks, mgrVars, subs, reg, lastCall, btc, sol, wk>>

\* case newHead := <-h, and e.blockByNumber: a failure is logged and the
\* goroutine is back at the select
EvmNewHead ==
    /\ evm.pc = "select"
    /\ \E ok \in BOOLEAN :
         evm' = IF ok THEN [evm EXCEPT !.pc = "txloop", !.obs = NoBlock]
                ELSE [evm EXCEPT !.fetchFailed = TRUE]
    /\ UNCHANGED <<api, locks, mgrVars, subs, reg, lastCall, btc, sol, wk>>

\* One turn of the loop over block.Transactions(), up to the send
EvmNextTx ==
    /\ evm.pc = "txloop"
    /\ evm.obs.ntx < MaxTxs
    /\ \E tx \in EvmTxs :
         LET o == [evm.obs EXCEPT !.ntx = @ + 1, !.tx = tx, !.sent = <<>>,
                                  !.keys = @ \cup EvmMatchKeys(tx)]
         IN  evm' =
               IF tx.from = NoAddr THEN [evm EXCEPT !.obs = o, !.skipped = @ + 1]
               ELSE IF ~EvmMatch(reg["eth1"], tx) THEN [evm EXCEPT !.obs = o]
               ELSE IF tx.to = NoAddr THEN [evm EXCEPT !.pc = "panic", !.obs = o]
               ELSE [evm EXCEPT
                       !.pc = "sendEvent",
                       !.ev = TrackedWalletEvent(EthereumMainnet,
                                                 AddressString(tx.from),
                                                 AddressString(tx.to),
                                                 tx.value, EvmFees(tx)),
                       !.obs = o]
    /\ UNCHANGED <<api, locks, mgrVars, subs, reg, lastCall, btc, sol, wk>>

\* EvmSendEvent as a send that does not wait for the receiver
EvmSendEventNoWait ==
    /\ evm.pc = "sendEvent"
    /\ evm' = [evm EXCEPT !.pc = "txloop", !.ev = NoEvent]
    /\ UNCHANGED <<api, locks, mgrVars, subs, reg, lastCall, btc, sol, wk>>

\* outEvents <- &TrackedWalletEvent{...}: the receiver takes the event
EvmSendEvent ==
    /\ evm.pc = "sendEvent"
    /\ evm' = [evm EXCEPT !.pc = "txloop", !.ev = NoEvent,
                          !.obs.sent = Append(@, evm.ev),
                          !.obs.blkSent = @ + 1]
    /\ UNCHANGED <<api, locks, mgrVars, subs, reg, lastCall, btc, sol, wk>>

\* the loop over the transactions ends: "processed a block"
EvmEndBlock ==
    /\ evm.pc = "txloop"
    /\ evm' = [evm EXCEPT !.pc = "select", !.obs = NoBlock, !.skipped = 0]
    /\ UNCHANGED <<api, locks, mgrVars, subs, reg, lastCall, btc, sol, wk>>

EvmInBlock == evm.pc \in {"txloop", "sendEvent"}

----------------------------------------------------------------------------
(* float64 arithmetic of the bitcoin subscriber *)

\* A float64 has a significand of 53 bits; the model scales it down.  A float
\* is [s, m, e], the number s * m * 2^e, with m = 0 or
\* 2^(MantissaBits-1) <= m < 2^MantissaBits.
MantissaBits == 6

Exponents == (0 - 3 * MantissaBits)..(3 * MantissaBits)

\* the float nearest to n/d (n >= 0, d > 0), ties to the even significand
RoundRatio(n, d) ==
    IF n = 0 THEN [m |-> 0, e |-> 0]
    ELSE LET e == CHOOSE x \in Exponents :
                    IF x >= 0
                    THEN /\ 2 ^ (MantissaBits - 1) * d * 2 ^ x <= n
                         /\ n < 2 ^ MantissaBits * d * 2 ^ x
                    ELSE /\ 2 ^ (MantissaBits - 1) * d <= n * 2 ^ (0 - x)
                         /\ n * 2 ^ (0 - x) < 2 ^ MantissaBits * d
             num == IF e < 0 THEN n * 2 ^ (0 - e) ELSE n
             den == IF e < 0 THEN d ELSE d * 2 ^ e
             q == num \div den
             r == num % den
             m == IF 2 * r < den THEN q
                  ELSE IF 2 * r > den THEN q + 1
                  ELSE IF q % 2 = 0 THEN q ELSE q + 1
         IN  IF m = 2 ^ MantissaBits
             THEN [m |-> 2 ^ (MantissaBits - 1), e |-> e + 1]
             ELSE [m |-> m, e |-> e]

Sign(n) == IF n < 0 THEN 0 - 1 ELSE 1

Abs(n) == IF n < 0 THEN 0 - n ELSE n

\* float64(n) of an int64
FloatOfInt(n) ==
    LET f == RoundRatio(Abs(n), 1) IN [s |-> Sign(n), m |-> f.m, e |-> f.e]

\* x / y
FloatDiv(x, y) ==
    LET k == x.e - y.e
        f == RoundRatio(IF k > 0 THEN x.m * 2 ^ k ELSE x.m,
                        IF k < 0 THEN y.m * 2 ^ (0 - k) ELSE y.m)
    IN  [s |-> x.s * y.s, m |-> f.m, e |-> f.e]

\* x * y
FloatMul(x, y) ==
    LET k == x.e + y.e
        f == RoundRatio(IF k > 0 THEN x.m * y.m * 2 ^ k ELSE x.m * y.m,
                        IF k < 0 THEN 2 ^ (0 - k) ELSE 1)
    IN  [s |-> x.s * y.s, m |-> f.m, e |-> f.e]

\* int64(x): the fraction is cut off
Int64OfFloat(x) ==
    x.s * (IF x.e >= 0 THEN x.m * 2 ^ x.e ELSE x.m \div 2 ^ (0 - x.e))

----------------------------------------------------------------------------
(* bitcoinSubscriber.Start: the goroutine *)

\* the highest block count the node reports
MaxHeight == 2

RECURSIVE Join(_, _)
\* strings.Join
Join(elems, sep) ==
    IF Len(elems) = 0 THEN <<>>
    ELSE IF Len(elems) = 1 THEN elems[1]
    ELSE elems[1] \o sep \o Join(Tail(elems), sep)

\* The transactions a block can hold, by what the subscriber reads of them:
\* per input the address and value of the previous output (NoAddr when
\* GetRawTransaction fails or the script yields no address), per output its
\* address (NoAddr when the script yields none) and value.
BtcTxs ==
    { [ins |-> << [addr |-> <<"1","A","b">>, value |-> 5] >>,
       outs |-> << [addr |-> <<"b","c","1","q">>, value |-> 3] >>],
      [ins |-> << [addr |-> <<"b","c","1","q">>, value |-> 9] >>,
       outs |-> << [addr |-> <<"1","A","b">>, value |-> 3],
                   [addr |-> <<"b","c","1","q">>, value |-> 4] >>],
      [ins |-> << [addr |-> NoAddr, value |-> 0] >>,
       outs |-> << [addr |-> <<"1","a","B">>, value |-> 2],
                   [addr |-> NoAddr, value |-> 1] >>],
      [ins |-> << [addr |-> <<"1","A","b">>, value |-> 2],
                  [addr |-> <<"b","c","1","q">>, value |-> 2] >>,
       outs |-> << [addr |-> <<"b","c","1","q">>, value |-> 3] >>],
      [ins |-> << [addr |-> <<"b","c","1","q">>, value |-> 2] >>,
       outs |-> << [addr |-> <<"1","A","b">>, value |-> 0] >>],
      [ins |-> << [addr |-> <<"1","A","b">>, value |-> 2],
                  [addr |-> NoAddr, value |-> 0],
                  [addr |-> <<"1","A","b">>, value |-> 3] >>,
       outs |-> << [addr |-> <<"b","c","1","q">>, value |-> 3],
                   [addr |-> <<"1","a","B">>, value |-> 0] >>],
      [ins |-> << [addr |-> <<"b","c","1","q">>, value |-> 14] >>,
       outs |-> << [addr |-> <<"1","A","b">>, value |-> 1],
                   [addr |-> <<"b","c","1","q">>, value |-> 12] >>] }

\* the entries of a list of inputs or outputs whose address was extracted
Resolved(list) == SelectSeq(list, LAMBDA x : x.addr # NoAddr)

RECURSIVE SumValues(_)
SumValues(list) == IF Len(list) = 0 THEN 0 ELSE list[1].value + SumValues(Tail(list))

inWallets(tx) == [i \in 1..Len(Resolved(tx.ins)) |-> Resolved(tx.ins)[i].addr]
outWallets(tx) == [i \in 1..Len(Resolved(tx.outs)) |-> Resolved(tx.outs)[i].addr]
outAmounts(tx) == [i \in 1..Len(Resolved(tx.outs)) |-> Resolved(tx.outs)[i].value]
inAmountTotal(tx) == SumValues(Resolved(tx.ins))
outAmountTotal(tx) == SumValues(Resolved(tx.outs))

\* the event sent for output i of the out wallets
BtcEvent(tx, i) ==
    LET fees == inAmountTotal(tx) - outAmountTotal(tx)
        total == outAmountTotal(tx)
        share == total > 0 /\ outAmounts(tx)[i] > 0
        p == FloatDiv(FloatOfInt(outAmounts(tx)[i]), FloatOfInt(total))
        currentOutputAmount ==
            IF share THEN Int64OfFloat(FloatMul(FloatOfInt(total), p)) ELSE 0
        currentOutputFees ==
            IF share THEN Int64OfFloat(FloatMul(FloatOfInt(fees), p)) ELSE 0
    IN  TrackedWalletEvent(Bitcoin, Join(inWallets(tx), <<",">>), outWallets(tx)[i],
                           currentOutputAmount, currentOutputFees)

\* the addresses a transaction is matched on: those of its outputs, as
\* registry keys
BtcMatchKeys(tx) == { ToLower(outWallets(tx)[i]) : i \in 1..Len(outWallets(tx)) }

\* a lookup of the out wallet as written, without strings.ToLower
BtcMatchAsWritten(R, outWallet) == outWallet \in R

\* the lookup of an out wallet in the registry, under the read lock
BtcMatch(R, outWallet) == ToLower(outWallet) \in R

\* a comparison that lets the block at the cursor through again
BtcAfterCountAgain(b, latestBlock) ==
    IF b.lastBlockNum <= latestBlock
    THEN [b EXCEPT !.lastBlockNum = latestBlock, !.pc = "getHash"]
    ELSE [b EXCEPT !.pc = "tick"]

\* the comparison with lastBlockNum after GetBlockCount returned latestBlock
BtcAfterCount(b, latestBlock) ==
    IF b.lastBlockNum < latestBlock
    THEN [b EXCEPT !.lastBlockNum = latestBlock, !.pc = "getHash"]
    ELSE [b EXCEPT !.pc = "tick"]

\* the loop over the out wallets moves on from index b.i
BtcNextOutput(b) ==
    IF b.i < Len(outWallets(b.obs.tx))
    THEN [b EXCEPT !.pc = "checkOut", !.i = @ + 1]
    ELSE [b EXCEPT !.pc = "txloop", !.i = 0]

\* Start(): the goroutine is launched.  Init has set lastBlockNum to the
\* block count it read, less one.
BtcStart ==
    /\ NotStarted
    /\ \E count \in 0..1 :
         btc' = [btc EXCEPT !.pc = "tick", !.lastBlockNum = count - 1, !.tip0 = count]
    /\ UNCHANGED <<api, locks, mgrVars, subs, reg, lastCall, evm, sol, wk>>

\* a tick, and b.c.GetBlockCount()
BtcTick ==
    /\ btc.pc = "tick"
    /\ \/ btc' = [btc EXCEPT !.pc = "sendCountErr", !.err = "failed to get block count"]
       \/ \E latestBlock \in 0..MaxHeight :
            btc' = BtcAfterCount([btc EXCEPT !.err = NoErr], latestBlock)
    /\ UNCHANGED <<api, locks, mgrVars, subs, reg, lastCall, evm, sol, wk>>

\* outErrs <- "failed to get block count"; the goroutine goes on with
\* latestBlock = 0
BtcSendCountErr ==
    /\ btc.pc = "sendCountErr"
    /\ btc' = BtcAfterCount(btc, 0)
    /\ UNCHANGED <<api, locks, mgrVars, subs, reg, lastCall, evm, sol, wk>>

\* b.c.GetBlockHash(latestBlock)
BtcGetBlockHash ==
    /\ btc.pc = "getHash"
    /\ \E ok \in BOOLEAN :
         btc' = [btc EXCEPT !.pc = IF ok THEN "getBlock" ELSE "sendHashErr",
                            !.hashOk = ok,
                            !.err = IF ok THEN @ ELSE "failed to get block hash"]
    /\ UNCHANGED <<api, locks, mgrVars, subs, reg, lastCall, evm, sol, wk>>

\* outErrs <- "failed to get block hash"; the goroutine goes on with a nil hash
BtcSendHashErr ==
    /\ btc.pc = "sendHashErr"
    /\ btc' = [btc EXCEPT !.pc = "getBlock"]
    /\ UNCHANGED <<api, locks, mgrVars, subs, reg, lastCall, evm, sol, wk>>

\* b.c.GetBlock(blockHash): with a nil hash the request names no block and
\* fails
BtcGetBlock ==
    /\ btc.pc = "getBlock"
    /\ \E ok \in BOOLEAN :
         btc' = IF ok /\ btc.hashOk
                THEN [btc EXCEPT !.pc = "txloop", !.obs = NoBlock,
                                 !.heights = Append(@, btc.lastBlockNum)]
                ELSE [btc EXCEPT !.pc = "sendBlockErr", !.err = "failed to get block info"]
    /\ UNCHANGED <<api, locks, mgrVars, subs, reg, lastCall, evm, sol, wk>>

\* outErrs <- "failed to get block info"; the log line that follows reads
\* blockHash.String() and len(fullBlock.Transactions) of nil pointers
BtcSendBlockErr ==
    /\ btc.pc = "sendBlockErr"
    /\ btc' = [btc EXCEPT !.pc = "panic"]
    /\ UNCHANGED <<api, locks, mgrVars, subs, reg, lastCall, evm, sol, wk>>

\* One turn of the loop over fullBlock.Transactions, up to the loop over the
\* out wallets
BtcNextTx ==
    /\ btc.pc = "txloop"
    /\ btc.obs.ntx < MaxTxs
    /\ \E tx \in BtcTxs :
         btc' = BtcNextOutput([btc EXCEPT !.obs.ntx = @ + 1, !.obs.tx = tx,
                                          !.obs.sent = <<>>,
                                          !.obs.keys = @ \cup BtcMatchKeys(tx),
                                          !.i = 0])
    /\ UNCHANGED <<api, locks, mgrVars, subs, reg, lastCall, evm, sol, wk>>

\* a lookup that also finds the tracked wallets among the inputs
BtcCheckInputsToo ==
    /\ btc.pc = "checkOut"
    /\ LET tx == btc.obs.tx
           spent == \E j \in 1..Len(inWallets(tx)) : BtcMatch(reg["btc1"], inWallets(tx)[j])
       IN  btc' = IF spent \/ BtcMatch(reg["btc1"], outWallets(tx)[btc.i])
                  THEN [btc EXCEPT !.pc = "sendEvent", !.ev = BtcEvent(tx, btc.i)]
                  ELSE BtcNextOutput(btc)
    /\ UNCHANGED <<api, locks, mgrVars, subs, reg, lastCall, evm, sol, wk>>

\* the registry lookup for out wallet i
BtcCheckOutput ==
    /\ btc.pc = "checkOut"
    /\ LET tx == btc.obs.tx
       IN  btc' = IF BtcMatch(reg["btc1"], outWallets(tx)[btc.i])
                  THEN [btc EXCEPT !.pc = "sendEvent", !.ev = BtcEvent(tx, btc.i)]
                  ELSE BtcNextOutput(btc)
    /\ UNCHANGED <<api, locks, mgrVars, subs, reg, lastCall, evm, sol, wk>>

\* outEvents <- &TrackedWalletEvent{...}: the receiver takes the event
BtcSendEvent ==
    /\ btc.pc = "sendEvent"
    /\ btc' = BtcNextOutput([btc EXCEPT !.ev = NoEvent,
                                        !.obs.sent = Append(@, btc.ev),
                                        !.obs.blkSent = @ + 1])
    /\ UNCHANGED <<api, locks, mgrVars, subs, reg, lastCall, evm, sol, wk>>

\* the loop over the transactions ends
BtcEndBlock ==
    /\ btc.pc = "txloop"
    /\ btc' = [btc EXCEPT !.pc = "tick", !.obs = NoBlock]
    /\ UNCHANGED <<api, locks, mgrVars, subs, reg, lastCall, evm, sol, wk>>

BtcInBlock == btc.pc \in {"txloop", "checkOut", "sendEvent"}

----------------------------------------------------------------------------
(* solanaMainnetSubscriber.Start and fetchBlock: the goroutines *)

RECURSIVE BytesValue(_)
\* the number big-endian bytes write
BytesValue(b) ==
    IF Len(b) = 0 THEN 0 ELSE BytesValue(SubSeq(b, 1, Len(b) - 1)) * 256 + b[Len(b)]

RECURSIVE Base58Digits(_)
Base58Digits(n) ==
    IF n = 0 THEN <<>>
    ELSE Append(Base58Digits(n \div 58), Base58Alphabet[(n % 58) + 1])

RECURSIVE LeadingZeros(_)
LeadingZeros(b) == IF Len(b) > 0 /\ b[1] = 0 THEN 1 + LeadingZeros(Tail(b)) ELSE 0

\* common.PublicKey.String: base58.Encode of the key bytes
PublicKeyString(k) == [i \in 1..LeadingZeros(k) |-> "1"] \o Base58Digits(BytesValue(k))

\* The transactions a block can hold, by what fetchBlock reads of them:
\* hasMeta is tx.Meta != nil.
SolTxs ==
    { [hasMeta |-> TRUE, accounts |-> << <<2, 50>>, <<0, 1>> >>,
       pre |-> <<9, 1>>, post |-> <<5, 4>>, fee |-> 1],
      [hasMeta |-> TRUE, accounts |-> << <<2, 50>>, <<0, 1>>, <<0, 1>> >>,
       pre |-> <<9, 1>>, post |-> <<5, 5>>, fee |-> 0],
      [hasMeta |-> TRUE, accounts |-> << <<0, 1>>, <<2, 50>> >>,
       pre |-> <<4, 4>>, post |-> <<4, 6>>, fee |-> 0],
      [hasMeta |-> TRUE, accounts |-> << <<2, 50>>, <<0, 1>> >>,
       pre |-> <<9, 1, 0>>, post |-> <<5, 4>>, fee |-> 1],
      [hasMeta |-> FALSE, accounts |-> << <<2, 50>> >>,
       pre |-> <<>>, post |-> <<>>, fee |-> 0],
      [hasMeta |-> TRUE, accounts |-> <<>>,
       pre |-> <<1>>, post |-> <<1>>, fee |-> 0],
      [hasMeta |-> TRUE, accounts |-> << <<2, 50>>, <<0, 1>>, <<0, 2>> >>,
       pre |-> <<9, 1, 2>>, post |-> <<5, 3, 3>>, fee |-> 1] }

\* a loop that passes over the transactions without meta only
SolSkippedWithoutMeta(tx) == ~tx.hasMeta

\* the transaction is skipped before its accounts are looked at
SolSkipped(tx) ==
    \/ ~tx.hasMeta
    \/ Len(tx.accounts) = 0
    \/ Len(tx.post) # Len(tx.pre)

\* tx.Meta.PostBalances[i] is read for every account i: an index out of range
\* when the account list is longer than the balance lists
SolIndexOutOfRange(tx) == Len(tx.accounts) > Len(tx.post)

solChange(tx, i) == tx.post[i] - tx.pre[i]

\* the indices of the accounts whose balance fell, in order
SenderIdx(tx) ==
    SelectSeq([i \in 1..Len(tx.accounts) |-> i], LAMBDA i : solChange(tx, i) < 0)

\* the indices of the accounts whose balance rose, in order
RecipientIdx(tx) ==
    SelectSeq([i \in 1..Len(tx.accounts) |-> i], LAMBDA i : solChange(tx, i) > 0)

senderWalletsStr(tx) ==
    [j \in 1..Len(SenderIdx(tx)) |-> PublicKeyString(tx.accounts[SenderIdx(tx)[j]])]

recipientWalletsStr(tx) ==
    [j \in 1..Len(RecipientIdx(tx)) |-> PublicKeyString(tx.accounts[RecipientIdx(tx)[j]])]

constructSolanaTransactionEvent(sender, recipient, amount, fees) ==
    TrackedWalletEvent(SolanaMainnet, sender, recipient, amount, fees)

\* SolChecks with the loop over the recipients before the loop over the
\* senders
SolChecksRecipientsFirst(tx) ==
    [j \in 1..Len(RecipientIdx(tx)) |->
        [key |-> tx.accounts[RecipientIdx(tx)[j]],
         ev |-> constructSolanaTransactionEvent(
                    Join(senderWalletsStr(tx), <<",">>),
                    recipientWalletsStr(tx)[j],
                    solChange(tx, RecipientIdx(tx)[j]), tx.fee)]]
    \o
    [j \in 1..Len(SenderIdx(tx)) |->
        [key |-> tx.accounts[SenderIdx(tx)[j]],
         ev |-> constructSolanaTransactionEvent(
                    senderWalletsStr(tx)[j],
                    Join(recipientWalletsStr(tx), <<",">>),
                    0 - solChange(tx, SenderIdx(tx)[j]), tx.fee)]]

\* The registry lookups of one transaction in the order fetchBlock makes
\* them, the senders first: the key looked up and the event sent on a hit.
SolChecks(tx) ==
    [j \in 1..Len(SenderIdx(tx)) |->
        [key |-> tx.accounts[SenderIdx(tx)[j]],
         ev |-> constructSolanaTransactionEvent(
                    senderWalletsStr(tx)[j],
                    Join(recipientWalletsStr(tx), <<",">>),
                    0 - solChange(tx, SenderIdx(tx)[j]), tx.fee)]]
    \o
    [j \in 1..Len(RecipientIdx(tx)) |->
        [key |-> tx.accounts[RecipientIdx(tx)[j]],
         ev |-> constructSolanaTransactionEvent(
                    Join(senderWalletsStr(tx), <<",">>),
                    recipientWalletsStr(tx)[j],
                    solChange(tx, RecipientIdx(tx)[j]), tx.fee)]]

\* the addresses a transaction is matched on: the accounts whose balance
\* changed (none when the transaction is skipped or its balances cannot be
\* read)
SolMatchKeys(tx) ==
    IF SolSkipped(tx) \/ SolIndexOutOfRange(tx) THEN {}
    ELSE { tx.accounts[i] : i \in { j \in 1..Len(tx.accounts) : solChange(tx, j) # 0 } }

\* the lookup of an account in the registry, under the read lock
SolMatch(R, key) == key \in R

\* the loops over the senders and the recipients move on from lookup w.i
WkNextCheck(w) ==
    IF w.i < Len(SolChecks(w.obs.tx))
    THEN [w EXCEPT !.pc = "check", !.i = @ + 1]
    ELSE [w EXCEPT !.pc = "txloop", !.i = 0]

\* Start(): the polling goroutine is launched
SolStart ==
    /\ NotStarted
    /\ sol' = [sol EXCEPT !.pc = "tick"]
    /\ UNCHANGED <<api, locks, mgrVars, subs, reg, lastCall, evm, btc, wk>>

\* a loop that launches a goroutine for the slots up to and including slot
InLoopInclusive(currentSlot, slot, s) == currentSlot <= s /\ s <= slot

\* for i := s.currentSlot; i < slot; i++: the slots the loop goes through
InLoop(currentSlot, slot, s) == currentSlot <= s /\ s < slot

\* A tick and s.getSlot: on an error the goroutine sends it; a slot that is
\* not ahead of currentSlot is passed over; otherwise one fetchBlock goroutine
\* is launched for every slot from currentSlot up to, not including, slot.
SolTick ==
    /\ sol.pc = "tick" /\ ~Crashed
    /\ \/ /\ sol' = [sol EXCEPT !.pc = "sendErr"]
          /\ wk' = wk
       \/ \E slot \in 0..MaxSlot :
            IF slot <= sol.currentSlot
            THEN /\ sol' = [sol EXCEPT !.slot = slot]
                 /\ wk' = wk
            ELSE /\ sol' = [sol EXCEPT
                              !.slot = slot,
                              !.currentSlot = slot,
                              !.launched = [s \in Slots |->
                                  IF InLoop(sol.currentSlot, slot, s)
                                  THEN @[s] + 1 ELSE @[s]]]
                 /\ wk' = [s \in Slots |->
                             IF InLoop(sol.currentSlot, slot, s)
                             THEN [WkNone EXCEPT !.pc = "fetch",
                                                 !.fetches = wk[s].fetches]
                             ELSE wk[s]]
    /\ UNCHANGED <<api, locks, mgrVars, subs, reg, lastCall, evm, btc>>

\* outErrors <- "failed to get slot"; continue
SolSendErr ==
    /\ sol.pc = "sendErr" /\ ~Crashed
    /\ sol' = [sol EXCEPT !.pc = "tick"]
    /\ UNCHANGED <<api, locks, mgrVars, subs, reg, lastCall, evm, btc, wk>>

\* a worker that calls s.getBlock again after an error
WkGetBlockRetry(s) ==
    /\ wk[s].pc = "fetch" /\ ~Crashed
    /\ \E ok \in BOOLEAN :
         wk' = [wk EXCEPT ![s] =
                  IF ok THEN [@ EXCEPT !.pc = "txloop", !.fetches = @ + 1]
                  ELSE [@ EXCEPT !.fetches = @ + 1]]
    /\ UNCHANGED <<api, locks, mgrVars, subs, reg, lastCall, evm, btc, sol>>

\* s.getBlock in the goroutine of slot s: on an error fetchBlock returns it
\* and the goroutine logs it and ends
WkGetBlock(s) ==
    /\ wk[s].pc = "fetch" /\ ~Crashed
    /\ \E ok \in BOOLEAN :
         wk' = [wk EXCEPT ![s] =
                  IF ok THEN [@ EXCEPT !.pc = "txloop", !.fetches = @ + 1]
                  ELSE [@ EXCEPT !.pc = "done", !.fetches = @ + 1,
                                 !.err = "failed to fetch block"]]
    /\ UNCHANGED <<api, locks, mgrVars, subs, reg, lastCall, evm, btc, sol>>

\* One turn of the loop over block.Transactions, up to the first lookup, in
\* a block of at most max transactions, each one of txs
WkTakeTx(s, max, txs) ==
    /\ wk[s].pc = "txloop" /\ ~Crashed
    /\ wk[s].obs.ntx < max
    /\ \E tx \in txs :
         LET w == [wk[s] EXCEPT !.obs.ntx = @ + 1, !.obs.tx = tx, !.obs.sent = <<>>,
                                !.obs.keys = @ \cup SolMatchKeys(tx), !.i = 0]
         IN  wk' = [wk EXCEPT ![s] =
                      IF SolSkipped(tx) THEN [w EXCEPT !.skipped = @ + 1]
                      ELSE IF SolIndexOutOfRange(tx) THEN [w EXCEPT !.pc = "panic"]
                      ELSE WkNextCheck(w)]
    /\ UNCHANGED <<api, locks, mgrVars, subs, reg, lastCall, evm, btc, sol>>

WkNextTx(s) == WkTakeTx(s, MaxSolTxs, SolTxs)

\* the registry lookup for sender or recipient i
WkCheck(s) ==
    /\ wk[s].pc = "check" /\ ~Crashed
    /\ LET c == SolChecks(wk[s].obs.tx)[wk[s].i]
       IN  wk' = [wk EXCEPT ![s] =
                    IF SolMatch(reg["sol1"], c.key)
                    THEN [wk[s] EXCEPT !.pc = "send", !.ev = c.ev]
                    ELSE WkNextCheck(wk[s])]
    /\ UNCHANGED <<api, locks, mgrVars, subs, reg, lastCall, evm, btc, sol>>

\* out <- event: the event is placed in the buffer of the events channel
\* (1000 places, more than the events of a run of the model)
WkSend(s) ==
    /\ wk[s].pc = "send" /\ ~Crashed
    /\ wk' = [wk EXCEPT ![s] =
                WkNextCheck([wk[s] EXCEPT !.ev = NoEvent,
                                          !.obs.sent = Append(@, wk[s].ev),
                                          !.obs.blkSent = @ + 1])]
    /\ UNCHANGED <<api, locks, mgrVars, subs, reg, lastCall, evm, btc, sol>>

\* the loop over the transactions ends: "processed a block", fetchBlock
\* returns nil
WkEndBlock(s) ==
    /\ wk[s].pc = "txloop" /\ ~Crashed
    /\ wk' = [wk EXCEPT ![s] = [WkNone EXCEPT !.pc = "done",
                                            !.fetches = wk[s].fetches]]
    /\ UNCHANGED <<api, locks, mgrVars, subs, reg, lastCall, evm, btc, sol>>

WkInBlock(s) == wk[s].pc \in {"txloop", "check", "send"}

----------------------------------------------------------------------------
(* One started subscriber with concurrent TrackWallet/UntrackWallet calls *)

\* the subscriber whose Start has been called
Started ==
    CASE evm.pc # "idle" -> "eth1"
      [] btc.pc # "idle" -> "btc1"
      [] sol.pc # "idle" -> "sol1"
      [] OTHER -> NoSub

\* the keys in one of two registries and not in the other
Changed(R, S) == (R \ S) \cup (S \ R)

\* The registry of the started subscriber becomes R: every block in progress
\* notes the keys that changed.
SetRegistry(R) ==
    LET d == Changed(reg[Started], R)
    IN  /\ reg' = [reg EXCEPT ![Started] = R]
        /\ evm' = IF EvmInBlock THEN [evm EXCEPT !.obs.dirty = @ \cup d] ELSE evm
        /\ btc' = IF BtcInBlock THEN [btc EXCEPT !.obs.dirty = @ \cup d] ELSE btc
        /\ wk' = [s \in Slots |->
                    IF WkInBlock(s) THEN [wk[s] EXCEPT !.obs.dirty = @ \cup d] ELSE wk[s]]
        /\ UNCHANGED sol

\* the wallet strings given to a running subscriber
IngestWallets(chain) ==
    CASE chain = EthereumMainnet -> { <<"0","x","A","B">>, <<"0","x","c","d">> }
      [] chain = Bitcoin -> { <<"1","A","b">>, <<"B","C","1","Q">> }
      [] chain = SolanaMainnet -> { <<"A","h">>, <<"1","2">> }

\* A TrackWallet call on the started subscriber
DirectTrackWallet ==
    /\ Started # NoSub /\ ~Crashed
    /\ \E wallet \in IngestWallets(Name(Started)) :
         SetRegistry(SubTrackWallet(Started, reg[Started], wallet).reg)
    /\ UNCHANGED <<api, locks, mgrVars, subs, lastCall>>

\* An UntrackWallet call on the started subscriber
DirectUntrackWallet ==
    /\ Started # NoSub /\ ~Crashed
    /\ \E wallet \in IngestWallets(Name(Started)) :
         SetRegistry(SubUntrackWallet(Started, reg[Started], wallet).reg)
    /\ UNCHANGED <<api, locks, mgrVars, subs, lastCall>>

InitIngest ==
    /\ subs = [c \in ChainNames |-> NoSub]
    /\ reg = [i \in Instances |-> {}]
    /\ lastCall = NoCall
    /\ evm = EvmIdle
    /\ btc = BtcIdle
    /\ sol \in { SolInit(n) : n \in Slots }
    /\ wk = WkIdle
    /\ MgrIdle
    /\ api = NoRequest
    /\ locks = NoLocks

NextIngest ==
    \/ EvmStart \/ EvmSubscribe \/ EvmSendSubscribeErr \/ EvmSubscriptionErr
    \/ EvmSendErr \/ EvmNewHead \/ EvmNextTx \/ EvmSendEvent \/ EvmEndBlock
    \/ BtcStart \/ BtcTick \/ BtcSendCountErr \/ BtcGetBlockHash \/ BtcSendHashErr
    \/ BtcGetBlock \/ BtcSendBlockErr \/ BtcNextTx \/ BtcCheckOutput
    \/ BtcSendEvent \/ BtcEndBlock
    \/ SolStart \/ SolTick \/ SolSendErr
    \/ \E s \in Slots : WkGetBlock(s)
    \/ \E s \in Slots : WkNextTx(s)
    \/ \E s \in Slots : WkCheck(s)
    \/ \E s \in Slots : WkSend(s)
    \/ \E s \in Slots : WkEndBlock(s)
    \/ DirectTrackWallet
    \/ DirectUntrackWallet

\* One subscriber, started on its own, and the calls that change its registry
\* while it runs.
SpecIngest == InitIngest /\ [][NextIngest]_vars

----------------------------------------------------------------------------
(* fetchBlock called on its own, as the test of the package calls it: a    *)
(* subscriber that was constructed and given wallets, never started, and   *)
(* one call of fetchBlock for a slot.                                       *)

\* the most transactions in the block the call is given
MaxFetchTxs == 2

\* the registry is one that TrackWallet calls can have built
InitFetch ==
    /\ subs = [c \in ChainNames |-> NoSub]
    /\ \E R \in SUBSET UNION { SubTrackWallet("sol1", {}, w).reg :
                                   w \in IngestWallets(SolanaMainnet) } :
         reg = [i \in Instances |-> IF i = "sol1" THEN R ELSE {}]
    /\ lastCall = NoCall
    /\ evm = EvmIdle
    /\ btc = BtcIdle
    /\ sol = SolIdle
    /\ wk = [WkIdle EXCEPT ![0].pc = "fetch"]
    /\ MgrIdle
    /\ api = NoRequest
    /\ locks = NoLocks

NextFetch ==
    \/ \E s \in Slots : WkGetBlock(s)
    \/ \E s \in Slots : WkTakeTx(s, MaxFetchTxs, SolTxs)
    \/ \E s \in Slots : WkCheck(s)
    \/ \E s \in Slots : WkSend(s)
    \/ \E s \in Slots : WkEndBlock(s)

SpecFetch == InitFetch /\ [][NextFetch]_vars

----------------------------------------------------------------------------
(* The fetchBlock goroutines of one tick: the solana subscriber from the    *)
(* moment its first tick, at slot 0, has found the finalized slot MaxSlot   *)
(* and has launched a goroutine for every slot below it.                    *)

\* the most transactions in the block of a slot
MaxSlotTxs == 2

\* The transactions of these blocks: one with a sender and a recipient, one
\* with two senders and a recipient.
SlotTxs ==
    { [hasMeta |-> TRUE, accounts |-> << <<2, 50>>, <<0, 1>> >>,
       pre |-> <<9, 1>>, post |-> <<5, 4>>, fee |-> 1],
      [hasMeta |-> TRUE, accounts |-> << <<0, 1>>, <<2, 50>>, <<0, 2>> >>,
       pre |-> <<3, 3, 1>>, post |-> <<1, 2, 4>>, fee |-> 0] }

\* The wallets of IngestWallets are tracked; the tick from slot 0 to MaxSlot
\* has taken place.
InitSlots ==
    /\ subs = [c \in ChainNames |-> NoSub]
    /\ reg = [i \in Instances |->
                IF i = "sol1"
                THEN UNION { SubTrackWallet("sol1", {}, w).reg :
                               w \in IngestWallets(SolanaMainnet) }
                ELSE {}]
    /\ lastCall = NoCall
    /\ evm = EvmIdle
    /\ btc = BtcIdle
    /\ sol = [SolInit(0) EXCEPT !.pc = "tick", !.slot = MaxSlot,
                                !.currentSlot = MaxSlot,
                                !.launched = [s \in Slots |-> 1]]
    /\ wk = [s \in Slots |-> [WkNone EXCEPT !.pc = "fetch"]]
    /\ MgrIdle
    /\ api = NoRequest
    /\ locks = NoLocks

NextSlots ==
    \/ SolTick
    \/ SolSendErr
    \/ \E s \in Slots : WkGetBlock(s)
    \/ \E s \in Slots : WkTakeTx(s, MaxSlotTxs, SlotTxs)
    \/ \E s \in Slots : WkCheck(s)
    \/ \E s \in Slots : WkSend(s)
    \/ \E s \in Slots : WkEndBlock(s)

SpecSlots == InitSlots /\ [][NextSlots]_vars

----------------------------------------------------------------------------
(* The admin API: httpServer.trackWallet and httpServer.untrackWallet *)

\* The wallet fields a request can carry for a chain: absent (the empty
\* string), an address the chain's subscriber accepts, one it rejects.
ApiWallets(chain) ==
    CASE chain = EthereumMainnet -> { <<>>, <<"0","x","A","B">>, <<"0","x","g","h">> }
      [] chain = Bitcoin -> { <<>>, <<"1","A","b">>, <<"1","A","x">> }
      [] chain = SolanaMainnet -> { <<>>, <<"A","h">>, <<"0","x">> }

\* walletsToTrack: the tuples {wallet, chain} of a parsed request, in order
walletsToTrack ==
    { <<<<e, EthereumMainnet>>, <<b, Bitcoin>>, <<s, SolanaMainnet>>>> :
        e \in ApiWallets(EthereumMainnet), b \in ApiWallets(Bitcoin),
        s \in ApiWallets(SolanaMainnet) }

\* The body written with the 400 of a failed tracker call
FailureBody(op, chainName) ==
    IF op = "POST"
    THEN <<"failed to register wallet tracking for", chainName>>
    ELSE <<"failed to deregister wallet tracking for", chainName>>

\* A handler whose tracker call returned an error and that went on with the
\* next tuple.
TupleFailedGoesOn(a, call) ==
    [a EXCEPT !.i = @ + 1, !.calls = Append(@, call)]

\* The handler after a tracker call that returned an error: 400 with the
\* chain's name, and return
TupleFailed(a, call) ==
    [a EXCEPT !.pc = "done", !.calls = Append(@, call), !.status = 400,
              !.body = FailureBody(a.op, call.chain)]

\* A request arrives at POST (DELETE) /tracked-wallets: the body is read and
\* parsed.
HandlerBegin(op) ==
    /\ api.pc \in {"idle", "done"}
    /\ LET a == [NoRequest EXCEPT !.op = op, !.before = reg]
       IN  \/ api' = [a EXCEPT !.pc = "done", !.status = 500]
           \/ api' = [a EXCEPT !.pc = "done", !.status = 400,
                               !.body = <<"failed to parse request">>]
           \/ \E req \in walletsToTrack :
                api' = [a EXCEPT !.pc = "loop", !.req = req, !.i = 1]
    /\ UNCHANGED <<locks, mgrVars, subs, reg, lastCall, ingestVars>>

trackWallet == HandlerBegin("POST")

untrackWallet == HandlerBegin("DELETE")

\* One iteration of the loop over walletsToTrack
HandlerTuple ==
    /\ api.pc = "loop" /\ api.i <= Len(api.req)
    /\ LET wallet == api.req[api.i][1]
           chainName == api.req[api.i][2]
       IN  IF Len(wallet) > 0
           THEN LET r == IF api.op = "POST"
                         THEN MgrTrackWallet(subs, reg, wallet, chainName)
                         ELSE MgrUntrackWallet(subs, reg, wallet, chainName)
                    call == [wallet |-> wallet, chain |-> chainName, err |-> r.err]
                IN  /\ reg' = r.reg
                    /\ api' = IF r.err # NoErr
                              THEN TupleFailed(api, call)
                              ELSE [api EXCEPT !.i = @ + 1, !.calls = Append(@, call)]
           ELSE /\ reg' = reg
                /\ api' = [api EXCEPT !.i = @ + 1]
    /\ UNCHANGED <<locks, mgrVars, subs, lastCall, ingestVars>>

\* The loop has gone through every tuple: 200 "OK"
HandlerOk ==
    /\ api.pc = "loop" /\ api.i > Len(api.req)
    /\ api' = [api EXCEPT !.pc = "done", !.status = 200, !.body = <<"OK">>]
    /\ UNCHANGED <<locks, mgrVars, subs, reg, lastCall, ingestVars>>

\* The server in front of a manager with any registered subscribers
InitApi ==
    /\ subs \in RegisteredMaps
    /\ reg = [i \in Instances |-> {}]
    /\ lastCall = NoCall
    /\ IngestIdle
    /\ MgrIdle
    /\ api = NoRequest
    /\ locks = NoLocks

NextApi == trackWallet \/ untrackWallet \/ HandlerTuple \/ HandlerOk

\* The http server handling one request after another
SpecApi == InitApi /\ [][NextApi]_vars

----------------------------------------------------------------------------
(* StartAll: the fan-in of the subscribers' channels.                      *)
(*                                                                         *)
(* Here a subscriber's goroutine is followed from one channel operation to *)
(* the next: what a block holds is an input, so a step of the goroutine    *)
(* ends with an event to send, an error to send, a failure that is only    *)
(* logged, or a panic.  An event is a pointer; it is named by its chain    *)
(* and the number of events its subscriber placed before it, plus one.     *)

\* all events placed, and all failures of the subscribers, in one run
MaxEvents == 3
MaxErrors == 2

\* all failures in one run of a manager with a single subscriber
MaxSoloErrors == 3

\* the failures a run is followed for
ErrorBound ==
    IF Cardinality({ c \in ChainNames : subs[c] # NoSub }) = 1
    THEN MaxSoloErrors ELSE MaxErrors

\* make(chan *TrackedWalletEvent) and make(chan *TrackedWalletEvent, 1000):
\* the capacity of a subscriber's events channel, 1000 scaled to 2
EventsCap(c) == IF c = SolanaMainnet THEN 2 ELSE 0

\* The failures a subscriber sends on its errors channel; every other failure
\* is logged where it happens.
ReportsEveryError(k) == TRUE

ReportsError(k) ==
    k \in { "failed to subscribe to new head", "subscription error",
            "failed to get block count", "failed to get block hash",
            "failed to get block info", "failed to get slot" }

\* RunDeblockTxTracker registers one subscriber of each chain
MainSubs ==
    [c \in ChainNames |->
        CASE c = EthereumMainnet -> "eth1"
          [] c = Bitcoin -> "btc1"
          [] c = SolanaMainnet -> "sol1"]

\* A panic in any goroutine ends the process
Panicked == \E c \in ChainNames : prod[c].pc = "panic"

Sum3(f) == f[EthereumMainnet] + f[Bitcoin] + f[SolanaMainnet]

\* events placed or about to be sent, and failures so far
EventsUsed ==
    Sum3([c \in ChainNames |-> prod[c].n + (IF prod[c].pc = "sendEvent" THEN 1 ELSE 0)])

ErrorsUsed ==
    mgr.sent + Sum3([c \in ChainNames |->
                        Len(prod[c].logged) + (IF prod[c].pc = "sendErr" THEN 1 ELSE 0)])

\* the goroutine of subscriber c goes on at pc
Goto(c, pc) == prod' = [prod EXCEPT ![c].pc = pc]

\* a failure k in the goroutine of subscriber c, which then goes on at next:
\* outErrors <- err, or slog.Error
Fail(c, k, next) ==
    /\ ErrorsUsed < ErrorBound
    /\ prod' = IF ReportsError(k)
               THEN [prod EXCEPT ![c].pc = "sendErr", ![c].err = k, ![c].resume = next]
               ELSE [prod EXCEPT ![c].pc = next, ![c].logged = Append(@, k)]

\* outEvents <- &TrackedWalletEvent{...} on an unbuffered channel
Place(c, next) ==
    /\ EventsUsed < MaxEvents
    /\ prod' = [prod EXCEPT ![c].pc = "sendEvent", ![c].resume = next]

\* where the goroutine Start launches begins
FirstPc(c) == IF c = EthereumMainnet THEN "subscribe" ELSE "tick"

\* for _, sub := range m.subs: sub.Start() and the go statement, in the order
\* the map iteration gives
StartAllNext(c) ==
    /\ mgr.pc = "loop" /\ c \in mgr.todo /\ ~Panicked
    /\ mgr' = [mgr EXCEPT !.todo = @ \ {c},
                          !.starts[c] = @ + 1,
                          !.pc = IF mgr.todo = {c} THEN "wait" ELSE "loop"]
    /\ prod' = [prod EXCEPT ![c].pc = FirstPc(c)]
    /\ fan' = [fan EXCEPT ![c].pc = "select"]
    /\ UNCHANGED <<api, locks, subs, reg, lastCall, ingestVars, events, delivered>>

\* ethereumMainnetSubscriber.Start's goroutine up to its next send
EthGoroutine ==
    LET c == EthereumMainnet
    IN  /\ ~Panicked
        /\ \/ /\ prod[c].pc = "subscribe"
              /\ \/ Goto(c, "select")
                 \/ Fail(c, "failed to subscribe to new head", "exited")
           \/ /\ prod[c].pc = "select"
              /\ \/ Fail(c, "subscription error", "select")
                 \/ Fail(c, "failed to get block by number", "select")
                 \/ Goto(c, "block")
           \/ /\ prod[c].pc = "block"
              /\ \/ Fail(c, "failed to recover public key", "block")
                 \/ Place(c, "block")
                 \/ Goto(c, "panic")
                 \/ Goto(c, "select")
        /\ UNCHANGED <<api, locks, subs, reg, lastCall, ingestVars, mgr, fan, events, delivered>>

\* bitcoinSubscriber.Start's goroutine up to its next send.  After a failed
\* GetBlockCount it goes on with latestBlock = 0, after a failed GetBlockHash
\* with a nil hash, and after a failed GetBlock it dereferences the nil block.
BtcGoroutine ==
    LET c == Bitcoin
    IN  /\ ~Panicked
        /\ \/ /\ prod[c].pc = "tick"
              /\ \/ \E next \in {"tick", "hash"} : Fail(c, "failed to get block count", next)
                 \/ Goto(c, "hash")
           \/ /\ prod[c].pc = "hash"
              /\ \/ Fail(c, "failed to get block hash", "nilhash")
                 \/ Goto(c, "getblock")
           \/ /\ prod[c].pc \in {"nilhash", "getblock"}
              /\ \/ Fail(c, "failed to get block info", "panic")
                 \/ prod[c].pc = "getblock" /\ Goto(c, "block")
           \/ /\ prod[c].pc = "block"
              /\ \/ Fail(c, "failed to get raw bitcoin transaction", "block")
                 \/ Place(c, "block")
                 \/ Goto(c, "tick")
        /\ UNCHANGED <<api, locks, subs, reg, lastCall, ingestVars, mgr, fan, events, delivered>>

\* solanaMainnetSubscriber.Start's polling goroutine: getSlot fails, or the
\* fetchBlock goroutines of the new slots are launched
SolGoroutine ==
    LET c == SolanaMainnet
    IN  /\ ~Panicked
        /\ prod[c].pc = "tick"
        /\ \/ Fail(c, "failed to get slot", "tick")
           \/ prod' = [prod EXCEPT ![c].workers = TRUE]
        /\ UNCHANGED <<api, locks, subs, reg, lastCall, ingestVars, mgr, fan, events, delivered>>

\* A fetchBlock goroutine: getBlock fails (logged by its caller), an event is
\* put in the buffered channel, or the account loop runs past the balances
SolWorker ==
    LET c == SolanaMainnet
    IN  /\ ~Panicked
        /\ prod[c].workers
        /\ \/ /\ ErrorsUsed < ErrorBound
              /\ prod' = [prod EXCEPT ![c].logged = Append(@, "failed to fetch block")]
              /\ UNCHANGED events
           \/ /\ EventsUsed < MaxEvents
              /\ Len(events[c]) < EventsCap(c)
              /\ events' = [events EXCEPT ![c] = Append(@, prod[c].n + 1)]
              /\ prod' = [prod EXCEPT ![c].n = @ + 1]
           \/ /\ Goto(c, "panic")
              /\ UNCHANGED events
        /\ UNCHANGED <<api, locks, subs, reg, lastCall, ingestVars, mgr, fan, delivered>>

\* case event := <-events
FanRecvEvent(c) ==
    /\ ~Panicked
    /\ fan[c].pc = "select"
    /\ IF EventsCap(c) = 0
       THEN /\ prod[c].pc = "sendEvent"
            /\ fan' = [fan EXCEPT ![c].pc = "sink", ![c].ev = prod[c].n + 1]
            /\ prod' = [prod EXCEPT ![c].pc = prod[c].resume, ![c].n = @ + 1]
            /\ UNCHANGED events
       ELSE /\ events[c] # <<>>
            /\ fan' = [fan EXCEPT ![c].pc = "sink", ![c].ev = Head(events[c])]
            /\ events' = [events EXCEPT ![c] = Tail(@)]
            /\ UNCHANGED prod
    /\ UNCHANGED <<api, locks, subs, reg, lastCall, ingestVars, mgr, delivered>>

\* case err := <-errs
FanRecvErr(c) ==
    /\ ~Panicked
    /\ fan[c].pc = "select"
    /\ prod[c].pc = "sendErr"
    /\ fan' = [fan EXCEPT ![c].pc = "errCh", ![c].err = prod[c].err]
    /\ prod' = [prod EXCEPT ![c].pc = prod[c].resume, ![c].err = NoErr]
    /\ mgr' = [mgr EXCEPT !.sent = @ + 1]
    /\ UNCHANGED <<api, locks, subs, reg, lastCall, ingestVars, events, delivered>>

\* what the caller has received after one more send on the sink
ForwardTwice(d, ev) == Append(Append(d, ev), ev)

Forward(d, ev) == Append(d, ev)

\* sink <- event, received by the caller
FanSendSink(c) ==
    /\ ~Panicked
    /\ fan[c].pc = "sink"
    /\ delivered' = [delivered EXCEPT ![c] = Forward(@, fan[c].ev)]
    /\ fan' = [fan EXCEPT ![c].pc = "select", ![c].ev = 0]
    /\ UNCHANGED <<api, locks, subs, reg, lastCall, ingestVars, mgr, prod, events>>

\* StartAll is at its receive from errCh
ReceivingForever(m) == m.pc \in {"wait", "returned"}

Receiving(m) == m.pc = "wait"

\* errCh <- err, received by return <-errCh
FanSendErr(c) ==
    /\ ~Panicked
    /\ fan[c].pc = "errCh"
    /\ Receiving(mgr)
    /\ mgr' = [mgr EXCEPT !.pc = "returned",
                          !.got = @ + 1,
                          !.first = IF mgr.got = 0 THEN fan[c].err ELSE @,
                          !.ret = fan[c].err]
    /\ fan' = [fan EXCEPT ![c].pc = "select", ![c].err = NoErr]
    /\ UNCHANGED <<api, locks, subs, reg, lastCall, ingestVars, prod, events, delivered>>

\* StartAll(sink) has been called on the manager main has set up
InitMgr ==
    /\ subs = MainSubs
    /\ reg = [i \in Instances |-> {}]
    /\ lastCall = NoCall
    /\ IngestIdle
    /\ mgr = [NoStartAll EXCEPT !.pc = "loop",
                                !.todo = {c \in ChainNames : MainSubs[c] # NoSub}]
    /\ fan = [c \in ChainNames |-> NoFan]
    /\ prod = [c \in ChainNames |-> NoProd]
    /\ events = [c \in ChainNames |-> <<>>]
    /\ delivered = [c \in ChainNames |-> <<>>]
    /\ api = NoRequest
    /\ locks = NoLocks

NextMgr ==
    \/ \E c \in ChainNames : StartAllNext(c)
    \/ EthGoroutine
    \/ BtcGoroutine
    \/ SolGoroutine
    \/ SolWorker
    \/ \E c \in ChainNames : FanRecvEvent(c)
    \/ \E c \in ChainNames : FanRecvErr(c)
    \/ \E c \in ChainNames : FanSendSink(c)
    \/ \E c \in ChainNames : FanSendErr(c)

SpecMgr == InitMgr /\ [][NextMgr]_vars

\* StartAll(sink) has been called on a manager whose one subscriber is the
\* solana subscriber
InitSolMgr ==
    /\ subs = [c \in ChainNames |-> IF c = SolanaMainnet THEN "sol1" ELSE NoSub]
    /\ reg = [i \in Instances |-> {}]
    /\ lastCall = NoCall
    /\ IngestIdle
    /\ mgr = [NoStartAll EXCEPT !.pc = "loop", !.todo = {SolanaMainnet}]
    /\ fan = [c \in ChainNames |-> NoFan]
    /\ prod = [c \in ChainNames |-> NoProd]
    /\ events = [c \in ChainNames |-> <<>>]
    /\ delivered = [c \in ChainNames |-> <<>>]
    /\ api = NoRequest
    /\ locks = NoLocks

NextSolMgr ==
    \/ \E c \in ChainNames : StartAllNext(c)
    \/ SolGoroutine
    \/ SolWorker
    \/ \E c \in ChainNames : FanRecvEvent(c)
    \/ \E c \in ChainNames : FanRecvErr(c)
    \/ \E c \in ChainNames : FanSendSink(c)
    \/ \E c \in ChainNames : FanSendErr(c)

SpecSolMgr == InitSolMgr /\ [][NextSolMgr]_vars

----------------------------------------------------------------------------
(* The registry lock: the sync.RWMutex mu of a subscriber, the goroutines   *)
(* that look wallets up while they process blocks and a TrackWallet or      *)
(* UntrackWallet call, each followed from one lock operation to the next.   *)
(* The wallet is one valid wallet of the chain, so a transaction matches    *)
(* exactly when its key is in the registry.                                 *)

\* the wallet given to TrackWallet and UntrackWallet
LockWallet(c) ==
    CASE c = EthereumMainnet -> <<"0","x","A","B">>
      [] c = Bitcoin -> <<"1","A","b">>
      [] c = SolanaMainnet -> <<"A","h">>

\* the goroutines that read the registry: the goroutine of Start, and for
\* solana one fetchBlock goroutine per slot
LockReaders(c) == IF c = SolanaMainnet THEN Slots ELSE {0}

\* the registry of the subscriber followed holds the wallet
LockMember ==
    SubTrackWallet(MainSubs[locks.chain], {}, LockWallet(locks.chain)).reg
        \subseteq reg[MainSubs[locks.chain]]

\* the late events counted for a goroutine
MaxLate == 2

\* Start: the goroutines exist and are about to take a transaction
LkStart(c) ==
    /\ locks.chain = NoSub
    /\ locks' = [locks EXCEPT !.chain = c,
                   !.g = [id \in Slots |->
                            IF id \in LockReaders(c)
                            THEN [pc |-> "next", ok |-> FALSE, stale |-> FALSE, late |-> 0]
                            ELSE @[id]]]
    /\ UNCHANGED <<api, mgrVars, ingestVars, subs, reg, lastCall>>

\* mu.RLock(): granted when no writer holds the lock and none waits for it
GoRLock(id) ==
    /\ locks.g[id].pc = "next"
    /\ ~locks.w /\ locks.call.pc # "lock"
    /\ locks' = [locks EXCEPT !.r = @ \cup {id}, !.g[id].pc = "lookup"]
    /\ UNCHANGED <<api, mgrVars, ingestVars, subs, reg, lastCall>>

\* the answer of registeredWallets[key]
LookupIgnoresRegistry == TRUE

LookupAnswer == LockMember

\* _, ok := registeredWallets[key]
GoLookup(id) ==
    /\ locks.g[id].pc = "lookup"
    /\ locks' = [locks EXCEPT !.g[id].pc = "runlock", !.g[id].ok = LookupAnswer]
    /\ UNCHANGED <<api, mgrVars, ingestVars, subs, reg, lastCall>>

\* the read lock kept until the event was sent
HeldWhileSending(r, id, ok) == IF ok THEN r ELSE r \ {id}

\* the holders of the read lock after the lookup of goroutine id
AfterLookup(r, id, ok) == r \ {id}

\* mu.RUnlock(), then the send if the wallet was found
GoRUnlock(id) ==
    /\ locks.g[id].pc = "runlock"
    /\ locks' = [locks EXCEPT !.r = AfterLookup(@, id, locks.g[id].ok),
                   !.g[id].pc = IF locks.g[id].ok THEN "send" ELSE "next"]
    /\ UNCHANGED <<api, mgrVars, ingestVars, subs, reg, lastCall>>

\* outEvents <- event: the receiver takes the event
GoSend(id) ==
    /\ locks.g[id].pc = "send"
    /\ locks' = [locks EXCEPT !.r = @ \ {id},
                   !.g[id] = [pc |-> "next", ok |-> FALSE, stale |-> FALSE,
                              late |-> IF LockMember THEN 0
                                       ELSE IF @.late < MaxLate THEN @.late + 1
                                       ELSE MaxLate]]
    /\ UNCHANGED <<api, mgrVars, ingestVars, subs, reg, lastCall>>

\* TrackWallet or UntrackWallet is called; the wallet is valid
CallBegin(op) ==
    /\ locks.chain # NoSub
    /\ locks.call.pc = "idle"
    /\ locks' = [locks EXCEPT !.call = [pc |-> "lock", op |-> op]]
    /\ UNCHANGED <<api, mgrVars, ingestVars, subs, reg, lastCall>>

\* mu.Lock(): granted when nobody holds the lock
CallLock ==
    /\ locks.call.pc = "lock"
    /\ ~locks.w /\ locks.r = {}
    /\ locks' = [locks EXCEPT !.w = TRUE, !.call.pc = "mutate"]
    /\ UNCHANGED <<api, mgrVars, ingestVars, subs, reg, lastCall>>

\* registeredWallets[key] = struct{}{}, or delete(registeredWallets, key)
CallMutate ==
    /\ locks.call.pc = "mutate"
    /\ LET inst == MainSubs[locks.chain]
           w == LockWallet(locks.chain)
       IN  reg' = [reg EXCEPT ![inst] =
                    IF locks.call.op = "track"
                    THEN SubTrackWallet(inst, @, w).reg
                    ELSE SubUntrackWallet(inst, @, w).reg]
    /\ locks' = [locks EXCEPT !.call.pc = "unlock",
                   !.g = [id \in Slots |->
                            IF locks.g[id].pc = "send"
                            THEN [@[id] EXCEPT !.stale = (locks.call.op = "untrack")]
                            ELSE IF locks.call.op = "track"
                            THEN [@[id] EXCEPT !.late = 0]
                            ELSE @[id]]]
    /\ UNCHANGED <<api, mgrVars, ingestVars, subs, lastCall>>

\* mu.Unlock() and the return of the call
CallUnlock ==
    /\ locks.call.pc = "unlock"
    /\ locks' = [locks EXCEPT !.w = FALSE, !.call.pc = "idle"]
    /\ UNCHANGED <<api, mgrVars, ingestVars, subs, reg, lastCall>>

InitLock ==
    /\ subs = MainSubs
    /\ reg = [inst \in Instances |-> {}]
    /\ lastCall = NoCall
    /\ IngestIdle
    /\ MgrIdle
    /\ api = NoRequest
    /\ locks = NoLocks

NextLock ==
    \/ \E c \in ChainNames : LkStart(c)
    \/ \E id \in Slots : GoRLock(id)
    \/ \E id \in Slots : GoLookup(id)
    \/ \E id \in Slots : GoRUnlock(id)
    \/ \E id \in Slots : GoSend(id)
    \/ \E op \in {"track", "untrack"} : CallBegin(op)
    \/ CallLock
    \/ CallMutate
    \/ CallUnlock

SpecLock == InitLock /\ [][NextLock]_vars

\* A goroutine that can run does run, and so does the call.  Nothing makes
\* the receiver of the events take one: the sink may never be drained.
LockFairness ==
    /\ WF_vars(CallLock) /\ WF_vars(CallMutate) /\ WF_vars(CallUnlock)
    /\ \A id \in Slots : WF_vars(GoLookup(id)) /\ WF_vars(GoRUnlock(id))

SpecLockFair == SpecLock /\ LockFairness

----------------------------------------------------------------------------
(* Properties *)

\* What the specification calls a well-formed address of each chain, for the
\* wallet strings of the model.
WellFormedWallets ==
    { <<"0","x","A","B">>, <<"a","b">>, <<"0","x","c","d">>,
      <<"1","A","b">>, <<"1","a","B">>, <<"B","C","1","Q">>,
      <<"A","h">>, <<"1","2">> }

\* The canonical form of each well-formed wallet string: the address bytes
\* (ethereum, as hex digit values), the lower-case string (bitcoin), the key
\* bytes (solana).
CanonicalForm(wallet) ==
    CASE wallet \in { <<"0","x","A","B">>, <<"a","b">> } -> <<10, 11>>
      [] wallet = <<"0","x","c","d">> -> <<12, 13>>
      [] wallet \in { <<"1","A","b">>, <<"1","a","B">> } -> <<"1","a","b">>
      [] wallet = <<"B","C","1","Q">> -> <<"b","c","1","q">>
      [] wallet = <<"A","h">> -> <<2, 50>>
      [] wallet = <<"1","2">> -> <<0, 1>>

\* the argument's chain was present when its turn came
AlreadyPresent(m, args, i) ==
    \/ m[Name(args[i])] # NoSub
    \/ \E j \in 1..(i - 1) : Name(args[j]) = Name(args[i])

\* C7: after any sequence of RegisterSubscribers calls the map holds per
\* chain at most one subscriber, and of that chain; in every call the
\* subscribers whose Init was invoked are a prefix of the arguments none of
\* which had its chain present, a call with an argument whose chain is
\* present returns an error, and a subscriber registered before the call
\* stays in place.
C7_OnePerChain ==
    [][ /\ subs' \in RegisteredMaps
        /\ lastCall'.op = "register" =>
             LET args == lastCall'.args
                 inits == lastCall'.inits
             IN  /\ Len(inits) <= Len(args)
                 /\ inits = SubSeq(args, 1, Len(inits))
                 /\ \A i \in 1..Len(inits) : ~AlreadyPresent(subs, args, i)
                 /\ (\E i \in 1..Len(args) : AlreadyPresent(subs, args, i))
                       => lastCall'.err # NoErr
                 /\ \A c \in ChainNames : subs[c] # NoSub => subs'[c] = subs[c]
      ]_vars

\* A second ethereum subscriber was rejected, without Init, and the first
\* one is still registered.
C7_Witness ==
    /\ lastCall.op = "register"
    /\ lastCall.args = <<"eth2">>
    /\ lastCall.err # NoErr
    /\ lastCall.inits = <<>>
    /\ subs[EthereumMainnet] = "eth1"

\* C8: a manager TrackWallet/UntrackWallet for a chain with no registered
\* subscriber returns an error and changes no registry; for a registered
\* chain it does what that chain's subscriber does with the wallet and leaves
\* every other subscriber's registry alone.
C8_Dispatch ==
    [][ lastCall'.op \in {"track", "untrack"} =>
          LET c == lastCall'.chain
              w == lastCall'.wallet
              sub == subs[c]
              r == IF lastCall'.op = "track"
                   THEN SubTrackWallet(sub, reg[sub], w)
                   ELSE SubUntrackWallet(sub, reg[sub], w)
          IN  /\ subs' = subs
              /\ sub = NoSub => (lastCall'.err # NoErr /\ reg' = reg)
              /\ sub # NoSub =>
                   /\ lastCall'.err = r.err
                   /\ reg'[sub] = r.reg
                   /\ \A i \in Instances \ {sub} : reg'[i] = reg[i]
      ]_vars

\* A TrackWallet for an unregistered chain returned an error while another
\* chain's subscriber holds tracked wallets.
C8_Witness ==
    /\ lastCall.op = "track"
    /\ lastCall.inst = NoSub
    /\ lastCall.err # NoErr
    /\ \E i \in Instances : reg[i] # {}
    /\ \A i \in Instances : subs[Name(i)] # i => reg[i] = {}

\* C9: on every chain a Track or Untrack given a malformed address returns an
\* error and leaves the registry as it was, and one that returns nil has
\* added (removed) the canonical form of the address and nothing else.
C9_ValidationOrExactUpdate ==
    [][ (lastCall'.op \in {"track", "untrack"} /\ lastCall'.inst # NoSub) =>
          LET w == lastCall'.wallet
              sub == lastCall'.inst
          IN  /\ w \notin WellFormedWallets =>
                   (lastCall'.err # NoErr /\ reg' = reg)
              /\ lastCall'.err = NoErr =>
                   /\ w \in WellFormedWallets
                   /\ reg'[sub] = IF lastCall'.op = "track"
                                  THEN reg[sub] \cup {CanonicalForm(w)}
                                  ELSE reg[sub] \ {CanonicalForm(w)}
      ]_vars

\* C10 as stated: a TrackWallet of a valid address directly followed by the
\* UntrackWallet of the same address leaves the registry as it was before the
\* TrackWallet, whether or not the address was in it.
C10_RoundTripAlways ==
    [][ ( /\ lastCall'.op = "untrack" /\ lastCall'.after
          /\ lastCall'.wallet \in WellFormedWallets )
        => reg'[lastCall'.inst] = lastCall'.before ]_vars

\* C10 amended: the round trip leaves the registry as it was when the address
\* was not tracked before, and removes the address when it was.
C10_RoundTrip ==
    [][ ( /\ lastCall'.op = "untrack" /\ lastCall'.after
          /\ lastCall'.wallet \in WellFormedWallets )
        => LET a == CanonicalForm(lastCall'.wallet)
               R == lastCall'.before
           IN  /\ lastCall'.err = NoErr
               /\ a \notin R => reg'[lastCall'.inst] = R
               /\ a \in R => reg'[lastCall'.inst] = R \ {a} ]_vars

\* A round trip on a bitcoin registry that held another wallet and not this
\* one, and holds what it held before.
C10_Witness ==
    /\ lastCall.op = "untrack" /\ lastCall.after
    /\ lastCall.wallet = <<"1","A","b">>
    /\ lastCall.before = { <<"b","c","1","q">> }
    /\ reg[lastCall.inst] = lastCall.before

\* C11: on every chain a TrackWallet of an address whose canonical form is
\* already in the registry (the same string again, or the same ethereum
\* address in another letter case) returns nil and leaves the registry as it
\* was, and one UntrackWallet of the address then leaves the registry without
\* it.
C11_TrackIdempotent ==
    [][ ( /\ lastCall'.op \in {"track", "untrack"}
          /\ lastCall'.inst # NoSub
          /\ lastCall'.wallet \in WellFormedWallets )
        => LET a == CanonicalForm(lastCall'.wallet)
               sub == lastCall'.inst
           IN  /\ lastCall'.err = NoErr
               /\ (lastCall'.op = "track" /\ a \in reg[sub]) => reg'[sub] = reg[sub]
               /\ lastCall'.op = "track" => a \in reg'[sub]
               /\ lastCall'.op = "untrack" => reg'[sub] = reg[sub] \ {a} ]_vars

\* An ethereum address that was tracked already was tracked again, written
\* as 0xAB, and one UntrackWallet has removed it: the other tracked address
\* remains.
C11_Witness ==
    /\ lastCall.op = "untrack" /\ lastCall.after
    /\ lastCall.wallet = <<"0","x","A","B">>
    /\ lastCall.before = { <<10, 11>>, <<12, 13>> }
    /\ reg[lastCall.inst] = { <<12, 13>> }

----------------------------------------------------------------------------
(* Properties of the ingestion *)

\* The registry key of each address string that occurs in a block of the
\* model or in an event.
KeyOfString(str) ==
    CASE str = <<"0","x","a","b">> -> <<10, 11>>
      [] str = <<"0","x","c","d">> -> <<12, 13>>
      [] str \in { <<"1","A","b">>, <<"1","a","B">> } -> <<"1","a","b">>
      [] str = <<"b","c","1","q">> -> <<"b","c","1","q">>
      [] str = <<"A","h">> -> <<2, 50>>
      [] str = <<"1","2">> -> <<0, 1>>
      [] str = <<"1","3">> -> <<0, 2>>
      [] OTHER -> NoAddr

\* The string an ethereum address or a solana key is written as.
StringOfKey(k) ==
    CASE k = <<10, 11>> -> <<"0","x","a","b">>
      [] k = <<12, 13>> -> <<"0","x","c","d">>
      [] k = <<2, 50>> -> <<"A","h">>
      [] k = <<0, 1>> -> <<"1","2">>
      [] k = <<0, 2>> -> <<"1","3">>

RECURSIVE Components(_)
\* the addresses a comma-joined string lists
Components(str) ==
    IF Len(str) = 0 THEN <<>>
    ELSE IF \E i \in 1..Len(str) : str[i] = ","
    THEN LET i == CHOOSE j \in 1..Len(str) :
                    str[j] = "," /\ \A k \in 1..(j - 1) : str[k] # ","
         IN  <<SubSeq(str, 1, i - 1)>> \o Components(SubSeq(str, i + 1, Len(str)))
    ELSE <<str>>

\* the event names the address in its source or in its destination
References(e, a) ==
    \/ \E i \in 1..Len(Components(e.Source)) : Components(e.Source)[i] = a
    \/ \E i \in 1..Len(Components(e.Destination)) : Components(e.Destination)[i] = a

\* The blocks in progress: the chain, the subscriber, whether the goroutine
\* is between two transactions (the last one taken has been processed to its
\* end), the event it is about to send, and the block's observation.
BlockViews ==
    { [chain |-> EthereumMainnet, inst |-> "eth1", txDone |-> evm.pc = "txloop",
       ev |-> evm.ev, obs |-> evm.obs],
      [chain |-> Bitcoin, inst |-> "btc1", txDone |-> btc.pc = "txloop",
       ev |-> btc.ev, obs |-> btc.obs] }
    \cup
    { [chain |-> SolanaMainnet, inst |-> "sol1", txDone |-> wk[s].pc = "txloop",
       ev |-> wk[s].ev, obs |-> wk[s].obs] : s \in Slots }

\* The senders and recipients of a transaction: ethereum, the recovered
\* sender and the recipient; bitcoin, the addresses of the inputs and of the
\* outputs; solana, the accounts whose balance fell or rose.
Parties(chain, tx) ==
    CASE chain = EthereumMainnet ->
           { StringOfKey(k) : k \in {tx.from, tx.to} \ {NoAddr} }
      [] chain = Bitcoin ->
           ({ tx.ins[i].addr : i \in 1..Len(tx.ins) } \cup
            { tx.outs[i].addr : i \in 1..Len(tx.outs) }) \ {NoAddr}
      [] chain = SolanaMainnet ->
           IF ~tx.hasMeta \/ Len(tx.pre) # Len(tx.post) THEN {}
           ELSE { StringOfKey(tx.accounts[i]) :
                    i \in { j \in 1..Len(tx.accounts) :
                              j <= Len(tx.post) /\ tx.post[j] # tx.pre[j] } }

\* The addresses a subscriber matches a transaction on: ethereum, the
\* recovered sender and the recipient of a transaction that has both;
\* bitcoin, the addresses of the outputs; solana, the accounts whose balance
\* changed, in a transaction with meta, balance lists of one length and no
\* more accounts than balances.
MatchedParties(chain, tx) ==
    CASE chain = EthereumMainnet ->
           IF tx.from = NoAddr \/ tx.to = NoAddr THEN {}
           ELSE { StringOfKey(tx.from), StringOfKey(tx.to) }
      [] chain = Bitcoin ->
           { tx.outs[i].addr : i \in 1..Len(tx.outs) } \ {NoAddr}
      [] chain = SolanaMainnet ->
           IF \/ ~tx.hasMeta \/ Len(tx.pre) # Len(tx.post)
              \/ Len(tx.accounts) > Len(tx.post)
           THEN {}
           ELSE { StringOfKey(tx.accounts[i]) :
                    i \in { j \in 1..Len(tx.accounts) : tx.post[j] # tx.pre[j] } }

\* the address has been in the registry since the block was fetched
TrackedThroughout(v, a) ==
    /\ KeyOfString(a) \in reg[v.inst]
    /\ KeyOfString(a) \notin v.obs.dirty

\* an event of the chain that names the address was placed on the events
\* channel for the transaction
EventFor(v, a) ==
    \E i \in 1..Len(v.obs.sent) :
        v.obs.sent[i].ChainName = v.chain /\ References(v.obs.sent[i], a)

EventsOf(v) == { v.obs.sent[i] : i \in 1..Len(v.obs.sent) } \cup ({v.ev} \ {NoEvent})

\* one side of the event is a single address that is in the registry (the
\* other side is the counterparty list)
MatchedSideRegistered(v, e) ==
    \E side \in {e.Source, e.Destination} :
        /\ Len(Components(side)) = 1
        /\ KeyOfString(side) \in reg[v.inst]

\* C2: while the registry has not changed since the block was fetched, every
\* event of a transaction has a single-address side that is in the registry
\* and belongs to an address the transaction is matched on, so that an
\* address outside the registry can only be on the other side, the
\* counterparty list; and a block none of whose transactions is matched on a
\* registered address has no event.
C2_OnlyRegisteredMatches ==
    \A v \in BlockViews :
        v.obs.dirty = {} =>
            /\ \A e \in EventsOf(v) :
                 /\ e.ChainName = v.chain
                 /\ v.obs.tx # NoTx
                 /\ \E a \in MatchedParties(v.chain, v.obs.tx) :
                      /\ KeyOfString(a) \in reg[v.inst]
                      /\ a \in {e.Source, e.Destination}
                 /\ MatchedSideRegistered(v, e)
            /\ (v.obs.keys \cap reg[v.inst] = {}) =>
                 (v.obs.blkSent = 0 /\ v.ev = NoEvent)

\* A solana transaction from a tracked key to an untracked one has been
\* processed: one event, whose destination is the untracked counterparty.
C2_Witness ==
    \E s \in Slots :
        /\ wk[s].pc = "txloop"
        /\ reg["sol1"] = { <<2, 50>> }
        /\ wk[s].obs.dirty = {}
        /\ wk[s].obs.blkSent = 1
        /\ Len(wk[s].obs.sent) = 1
        /\ wk[s].obs.sent[1].Source = <<"A","h">>
        /\ wk[s].obs.sent[1].Destination = <<"1","2">>


\* the ethereum goroutine has processed a transaction that has a recipient
\* and a recovered sender, one of them in the registry, and the registry has
\* not changed since the block was fetched
EvmMatchedTxDone ==
    /\ evm.pc = "txloop"
    /\ evm.obs.tx # NoTx
    /\ evm.obs.dirty = {}
    /\ evm.obs.tx.from # NoAddr
    /\ evm.obs.tx.to # NoAddr
    /\ {evm.obs.tx.from, evm.obs.tx.to} \cap reg["eth1"] # {}

\* C12: for a transaction with a recipient and a recovered sender, one of
\* them tracked, the ethereum subscriber emits exactly one event, with chain
\* ethereum_mainnet, source the sender, destination the recipient, amount the
\* value and fees the gas price times the gas limit.
C12_OneEventPerMatchedTx ==
    EvmMatchedTxDone =>
        LET tx == evm.obs.tx
        IN  evm.obs.sent =
              << TrackedWalletEvent(EthereumMainnet, StringOfKey(tx.from),
                                    StringOfKey(tx.to), tx.value,
                                    tx.gasPrice * tx.gas) >>

\* What holds of the code: the same with the fees the code computes, the
\* product in a 64-bit word read as a signed number.
C12_OneEventWordFees ==
    EvmMatchedTxDone =>
        LET tx == evm.obs.tx
        IN  evm.obs.sent =
              << TrackedWalletEvent(EthereumMainnet, StringOfKey(tx.from),
                                    StringOfKey(tx.to), tx.value, EvmFees(tx)) >>

\* C13: a contract creation (a transaction without recipient) is skipped:
\* once the ethereum goroutine has taken it from the block, no event was or
\* is about to be sent for it and the goroutine is in its loop over the
\* transactions, ready for the next one, whether or not the recovered sender
\* is tracked.
C13_ContractCreationSkipped ==
    (evm.obs.tx # NoTx /\ evm.obs.tx.to = NoAddr) =>
        /\ evm.pc = "txloop"
        /\ evm.obs.sent = <<>>
        /\ evm.ev = NoEvent

\* C14: once the error of the new-head subscription has been sent on the
\* errors channel, the ethereum goroutine has exited and that send is the
\* only one: no second error is sent and no further header is processed.
C14_ExitsAfterSubscriptionError ==
    (evm.err = "subscription error" /\ evm.errs >= 1) =>
        (evm.pc = "exited" /\ evm.errs = 1)

\* Where the code goes instead: the subscription error has been sent and the
\* goroutine is processing the transactions of a later block.
C14_GoesOn ==
    /\ evm.err = "subscription error" /\ evm.errs = 1
    /\ evm.pc = "txloop"
    /\ evm.obs.ntx = 1

\* C15: when subscribing to new heads fails, the ethereum goroutine sends
\* "failed to subscribe to new head" on the errors channel, once, and ends:
\* it never fetches a block or emits an event, and after the send it takes no
\* further step.
C15_SubscribeFailure ==
    /\ [](evm.err = "failed to subscribe to new head" =>
            /\ evm.pc \in {"sendSubscribeErr", "exited"}
            /\ evm.errs = (IF evm.pc = "exited" THEN 1 ELSE 0)
            /\ evm.obs = NoBlock
            /\ evm.ev = NoEvent)
    /\ [][evm.pc = "exited" => evm' = evm]_vars

\* the subscribe error has been sent and the goroutine has ended, while the
\* registry of the subscriber holds a wallet
C15_Witness ==
    /\ evm.pc = "exited"
    /\ evm.errs = 1
    /\ evm.err = "failed to subscribe to new head"
    /\ reg["eth1"] # {}


\* the worker of slot s has taken a transaction that is not skipped from the
\* block, and the registry has not changed since the block was fetched
SolTxTaken(s) ==
    /\ wk[s].obs.tx # NoTx
    /\ ~SolSkipped(wk[s].obs.tx)
    /\ wk[s].obs.dirty = {}

\* the accounts of a transaction whose balance fell and that are in the
\* registry R, by their index, in account order
TrackedSenderIdx(tx, R) ==
    SelectSeq([i \in 1..Len(tx.accounts) |-> i],
              LAMBDA i : /\ i <= Len(tx.post)
                         /\ tx.post[i] < tx.pre[i]
                         /\ tx.accounts[i] \in R)

\* the accounts of a transaction whose balance rose, as strings, in account
\* order
PositiveDeltaAccounts(tx) ==
    LET idx == SelectSeq([i \in 1..Len(tx.accounts) |-> i],
                         LAMBDA i : i <= Len(tx.post) /\ tx.post[i] > tx.pre[i])
    IN  [j \in 1..Len(idx) |-> PublicKeyString(tx.accounts[idx[j]])]

\* the events C16 expects of a transaction: one for each tracked account
\* whose balance fell
SenderEvents(tx, R) ==
    LET idx == TrackedSenderIdx(tx, R)
    IN  [j \in 1..Len(idx) |->
            TrackedWalletEvent(SolanaMainnet,
                               PublicKeyString(tx.accounts[idx[j]]),
                               Join(PositiveDeltaAccounts(tx), <<",">>),
                               tx.pre[idx[j]] - tx.post[idx[j]],
                               tx.fee)]

\* the first n events placed for the transaction of slot s
FirstSent(s, n) == SubSeq(wk[s].obs.sent, 1, n)

\* C16: for a transaction of a fetched slot, the worker emits one event for
\* each tracked account whose balance fell, with source that account,
\* destination the comma-join of the accounts whose balance rose, amount the
\* fall and fees the transaction fee, and none for a tracked account whose
\* balance did not change: the worker goes through the transaction (it does
\* not stop in it) and, at its end, the events placed for it begin with
\* exactly those events.
C16_SenderEvents ==
    \A s \in Slots :
        SolTxTaken(s) =>
            LET exp == SenderEvents(wk[s].obs.tx, reg["sol1"])
            IN  /\ Len(exp) > 0 => wk[s].pc \in {"check", "send", "txloop"}
                /\ wk[s].pc = "txloop" =>
                     /\ Len(wk[s].obs.sent) >= Len(exp)
                     /\ FirstSent(s, Len(exp)) = exp
                     /\ \A i \in (Len(exp) + 1)..Len(wk[s].obs.sent) :
                          Len(Components(wk[s].obs.sent[i].Destination)) = 1

\* What holds of the code: the same for the transactions whose account list
\* is no longer than their balance lists.
C16_SenderEventsReadable ==
    \A s \in Slots :
        (SolTxTaken(s) /\ ~SolIndexOutOfRange(wk[s].obs.tx)) =>
            LET exp == SenderEvents(wk[s].obs.tx, reg["sol1"])
            IN  /\ wk[s].pc \in {"check", "send", "txloop"}
                /\ wk[s].pc = "txloop" =>
                     /\ Len(wk[s].obs.sent) >= Len(exp)
                     /\ FirstSent(s, Len(exp)) = exp
                     /\ \A i \in (Len(exp) + 1)..Len(wk[s].obs.sent) :
                          /\ Len(Components(wk[s].obs.sent[i].Destination)) = 1
                          /\ wk[s].obs.sent[i].Source =
                               Join(senderWalletsStr(wk[s].obs.tx), <<",">>)

\* A transaction with one tracked sender and two recipients has been
\* processed: the one event names both recipients, in account order.
C16_TwoRecipients ==
    \E s \in Slots :
        /\ SolTxTaken(s) /\ wk[s].pc = "txloop"
        /\ reg["sol1"] = { <<2, 50>> }
        /\ wk[s].obs.sent =
             << TrackedWalletEvent(SolanaMainnet, <<"A","h">>,
                                   <<"1","2",",","1","3">>, 4, 1) >>

\* the accounts of a transaction whose balance rose and that are in the
\* registry R, by their index, in account order
TrackedRecipientIdx(tx, R) ==
    SelectSeq([i \in 1..Len(tx.accounts) |-> i],
              LAMBDA i : /\ i <= Len(tx.post)
                         /\ tx.post[i] > tx.pre[i]
                         /\ tx.accounts[i] \in R)

\* the accounts of a transaction whose balance fell, as strings, in account
\* order
NegativeDeltaAccounts(tx) ==
    LET idx == SelectSeq([i \in 1..Len(tx.accounts) |-> i],
                         LAMBDA i : i <= Len(tx.post) /\ tx.post[i] < tx.pre[i])
    IN  [j \in 1..Len(idx) |-> PublicKeyString(tx.accounts[idx[j]])]

\* one event for each tracked account whose balance rose, with the given
\* fees
RecipientEvents(tx, R, fees) ==
    LET idx == TrackedRecipientIdx(tx, R)
    IN  [j \in 1..Len(idx) |->
            TrackedWalletEvent(SolanaMainnet,
                               Join(NegativeDeltaAccounts(tx), <<",">>),
                               PublicKeyString(tx.accounts[idx[j]]),
                               tx.post[idx[j]] - tx.pre[idx[j]],
                               fees)]

\* the worker of slot s is at the end of a transaction whose balances it
\* could read, with the registry unchanged since the block was fetched
SolTxDone(s) ==
    /\ SolTxTaken(s)
    /\ ~SolIndexOutOfRange(wk[s].obs.tx)
    /\ wk[s].pc = "txloop"

\* the events placed for the transaction of slot s after the sender events
SentAfterSenders(s) ==
    LET n == Len(SenderEvents(wk[s].obs.tx, reg["sol1"]))
    IN  SubSeq(wk[s].obs.sent, n + 1, Len(wk[s].obs.sent))

\* C17: for each tracked account whose balance rose the worker emits one
\* event with source the comma-join of the senders, destination that account,
\* amount the rise and fees 0; an event with fees other than 0 has a single
\* tracked sender as its source and the recipients as its destination (it is
\* one of the sender events).
C17_RecipientEventsFeeZero ==
    \A s \in Slots :
        SolTxDone(s) =>
            /\ SentAfterSenders(s) = RecipientEvents(wk[s].obs.tx, reg["sol1"], 0)
            /\ \A i \in 1..Len(wk[s].obs.sent) :
                 wk[s].obs.sent[i].Fees # 0 =>
                     i <= Len(SenderEvents(wk[s].obs.tx, reg["sol1"]))

\* What holds of the code: the recipient events are as C17 says but for the
\* fees, which are the transaction fee as in the sender events.
C17_RecipientEventsTxFee ==
    \A s \in Slots :
        SolTxDone(s) =>
            SentAfterSenders(s) =
                RecipientEvents(wk[s].obs.tx, reg["sol1"], wk[s].obs.tx.fee)

\* Only the recipient of a transaction with fee 1 is tracked: its event
\* carries the fee.
C17_RecipientPaysFee ==
    \E s \in Slots :
        /\ SolTxDone(s)
        /\ reg["sol1"] = { <<0, 1>> }
        /\ wk[s].obs.sent =
             << TrackedWalletEvent(SolanaMainnet, <<"A","h">>, <<"1","2">>, 3, 1) >>

\* C18: a tick whose finalized slot n is ahead of current-slot c launches
\* exactly one worker for each slot in [c, n) and makes current-slot n; a
\* tick with n <= c launches nothing and leaves the cursor; so current-slot
\* never decreases and at every moment each slot from the initial slot up to
\* current-slot - 1 has been dispatched exactly once, and no other slot.
C18_SlotCursor ==
    /\ [](/\ sol.first <= sol.currentSlot
          /\ \A s \in Slots :
               sol.launched[s] =
                   IF sol.first <= s /\ s < sol.currentSlot THEN 1 ELSE 0)
    /\ [][ /\ sol'.currentSlot >= sol.currentSlot
           /\ (sol.pc = "tick" /\ sol'.pc = "tick" /\ sol' # sol) =>
                 IF sol'.slot > sol.currentSlot
                 THEN /\ sol'.currentSlot = sol'.slot
                      /\ \A s \in Slots :
                           IF sol.currentSlot <= s /\ s < sol'.slot
                           THEN /\ sol'.launched[s] = sol.launched[s] + 1
                                /\ wk'[s].pc = "fetch"
                           ELSE /\ sol'.launched[s] = sol.launched[s]
                                /\ wk'[s] = wk[s]
                 ELSE /\ sol'.currentSlot = sol.currentSlot
                      /\ sol'.launched = sol.launched
                      /\ wk' = wk
           /\ sol'.launched # sol.launched => (sol.pc = "tick" /\ sol'.pc = "tick")
         ]_vars

\* Init found slot 0; one tick launched the workers of the slots 0 and 1 and
\* a later tick, whose slot was behind the cursor, launched none.
C18_Witness ==
    /\ sol.first = 0
    /\ sol.currentSlot = 2
    /\ sol.slot = 1
    /\ sol.pc = "tick"
    /\ \A s \in Slots : sol.launched[s] = 1 /\ wk[s].pc # "none"

\* the transactions C19 is about: no meta, no accounts, or balance lists of
\* different lengths
WithoutData(tx) ==
    \/ ~tx.hasMeta
    \/ tx.accounts = <<>>
    \/ Len(tx.pre) # Len(tx.post)

\* C19: a transaction without meta, without accounts or with balance lists
\* of different lengths produces no event and does not stop the worker: once
\* the worker has taken it, it is back at the head of its loop over the
\* transactions with nothing sent or about to be sent for it, and its next
\* step takes the next transaction of the block, whichever it is, or ends
\* the block.
C19_SkippedTx ==
    /\ [](\A s \in Slots :
            (wk[s].obs.tx # NoTx /\ WithoutData(wk[s].obs.tx)) =>
                /\ wk[s].pc = "txloop"
                /\ wk[s].obs.sent = <<>>
                /\ wk[s].ev = NoEvent
                /\ wk[s].err = NoErr)
    /\ [][ \A s \in Slots :
             /\ (wk'[s].obs.ntx = wk[s].obs.ntx + 1 /\ WithoutData(wk'[s].obs.tx)) =>
                  /\ wk'[s].obs.blkSent = wk[s].obs.blkSent
                  /\ wk'[s].skipped = wk[s].skipped + 1
             /\ (/\ wk[s].obs.tx # NoTx /\ WithoutData(wk[s].obs.tx)
                 /\ (wk'[s].pc # wk[s].pc \/ wk'[s].obs.ntx # wk[s].obs.ntx)) =>
                  \/ /\ wk'[s].obs.ntx = wk[s].obs.ntx + 1
                     /\ wk'[s].obs.tx \in SolTxs
                  \/ /\ wk'[s].pc = "done"
                     /\ wk'[s].err = NoErr ]_vars

\* In a block of two transactions the first, which has no meta, was passed
\* over and the second, from a tracked account, was processed: its event was
\* sent.
C19_Witness ==
    /\ wk[0].pc = "txloop"
    /\ wk[0].skipped = 1
    /\ wk[0].obs.ntx = 2
    /\ ~WithoutData(wk[0].obs.tx)
    /\ reg["sol1"] = { <<2, 50>> }
    /\ wk[0].obs.blkSent = 1
    /\ wk[0].obs.sent =
         << TrackedWalletEvent(SolanaMainnet, <<"A","h">>, <<"1","2">>, 4, 1) >>

\* C20: when the fetch of a slot's block fails, fetchBlock returns the error
\* before any event: the worker ends with the failure logged, nothing sent or
\* pending, and the step changes nothing of the polling goroutine, the only
\* sender on the errors channel, nor of another worker; the block of a slot
\* is fetched at most once, and a worker that failed takes no further step.
C20_FetchFailure ==
    /\ [](\A s \in Slots :
            /\ wk[s].fetches <= 1
            /\ wk[s].err # NoErr =>
                 /\ wk[s].err = "failed to fetch block"
                 /\ wk[s].pc = "done"
                 /\ wk[s].fetches = 1
                 /\ wk[s].obs = NoBlock
                 /\ wk[s].ev = NoEvent)
    /\ [][ \A s \in Slots :
             /\ (wk[s].err = NoErr /\ wk'[s].err # NoErr) =>
                  /\ wk[s].pc = "fetch"
                  /\ sol' = sol
                  /\ \A t \in Slots \ {s} : wk'[t] = wk[t]
             /\ wk[s].err # NoErr => wk'[s] = wk[s] ]_vars

\* The fetch of slot 0 failed; the cursor has moved past it, the worker of
\* slot 1 has sent an event, and the polling goroutine has made another
\* tick since: slot 0 was fetched once.
C20_Witness ==
    /\ wk[0].err = "failed to fetch block"
    /\ wk[0].fetches = 1
    /\ sol.currentSlot = 2
    /\ sol.slot = 1
    /\ sol.pc = "tick"
    /\ wk[1].obs.blkSent = 1

\* the bitcoin goroutine is at the end of a transaction and the registry has
\* not changed since the block was fetched
BtcTxDone ==
    /\ btc.pc = "txloop"
    /\ btc.obs.tx # NoTx
    /\ btc.obs.dirty = {}

\* the outputs of a transaction that have an address whose lower-cased form
\* is in the registry R, in output order
TrackedOutputs(tx, R) ==
    SelectSeq(tx.outs, LAMBDA o : o.addr # NoAddr /\ ToLower(o.addr) \in R)

\* the addresses of the inputs whose previous output was resolved, in input
\* order
ResolvedInputAddrs(tx) ==
    LET r == SelectSeq(tx.ins, LAMBDA x : x.addr # NoAddr)
    IN  [i \in 1..Len(r) |-> r[i].addr]

\* the sum of the values of the outputs that have an address
TotalOut(tx) == SumValues(SelectSeq(tx.outs, LAMBDA o : o.addr # NoAddr))

\* the event is the one C21 describes for the output
EventOfOutput(e, tx, o) ==
    /\ e.ChainName = Bitcoin
    /\ e.Destination = o.addr
    /\ e.Source = Join(ResolvedInputAddrs(tx), <<",">>)
    /\ e.Amount - o.value \in {0 - 1, 0, 1}
    /\ (TotalOut(tx) = 0 \/ o.value <= 0) => (e.Amount = 0 /\ e.Fees = 0)

\* C21: for a transaction of the processed block the bitcoin subscriber emits
\* exactly one event for each output whose lower-cased address is in the
\* registry, in output order, with destination the output's address, source
\* the comma-join of the resolved input addresses and amount the output's
\* value, within one unit; amount and fees are 0 when the outputs sum to zero
\* or the output's value is not positive.
C21_OneEventPerTrackedOutput ==
    BtcTxDone =>
        LET outs == TrackedOutputs(btc.obs.tx, reg["btc1"])
        IN  /\ Len(btc.obs.sent) = Len(outs)
            /\ \A i \in 1..Len(outs) :
                 EventOfOutput(btc.obs.sent[i], btc.obs.tx, outs[i])

\* Both outputs of a transaction with three inputs, one of them unresolved
\* and two from one address, are tracked: two events in output order, the
\* second for the output of value 0.
C21_Witness ==
    /\ BtcTxDone
    /\ Len(btc.obs.tx.ins) = 3
    /\ btc.obs.sent =
         << TrackedWalletEvent(Bitcoin, <<"1","A","b",",","1","A","b">>,
                               <<"b","c","1","q">>, 3, 2),
            TrackedWalletEvent(Bitcoin, <<"1","A","b",",","1","A","b">>,
                               <<"1","a","B">>, 0, 0) >>

\* The tracked output has value 1 of 13: the share computed in floating
\* point gives the amount 0, one unit off.
C21_OneUnitOff ==
    /\ BtcTxDone
    /\ Len(btc.obs.sent) = 1
    /\ btc.obs.sent[1].Destination = <<"1","A","b">>
    /\ btc.obs.sent[1].Amount = 0
    /\ btc.obs.tx.outs[1].value = 1

\* the sum of the values of the inputs whose previous output was resolved
TotalIn(tx) == SumValues(SelectSeq(tx.ins, LAMBDA x : x.addr # NoAddr))

\* the events of the bitcoin transaction in progress, sent or about to be
BtcEventsOfTx ==
    { btc.obs.sent[i] : i \in 1..Len(btc.obs.sent) } \cup ({btc.ev} \ {NoEvent})

\* 0 <= amount <= total-out and 0 <= fees <= max(0, total-in - total-out)
WithinBounds(e, tx) ==
    /\ 0 <= e.Amount /\ e.Amount <= TotalOut(tx)
    /\ 0 <= e.Fees
    /\ e.Fees <= (IF TotalIn(tx) > TotalOut(tx) THEN TotalIn(tx) - TotalOut(tx) ELSE 0)

\* C22: every event the bitcoin subscriber emits has an amount between 0 and
\* the sum of the outputs and fees between 0 and the resolved inputs' sum
\* less the outputs' sum, or 0 when that is negative: fees are never
\* negative, whatever inputs were resolved.
C22_ApportionmentBounds ==
    \A e \in BtcEventsOfTx : WithinBounds(e, btc.obs.tx)

\* What holds of the code: the bounds for the transactions whose resolved
\* inputs cover the outputs; for the others the fees are not positive.
C22_BoundsWhenCovered ==
    \A e \in BtcEventsOfTx :
        IF TotalIn(btc.obs.tx) >= TotalOut(btc.obs.tx)
        THEN WithinBounds(e, btc.obs.tx)
        ELSE /\ 0 <= e.Amount /\ e.Amount <= TotalOut(btc.obs.tx)
             /\ e.Fees <= 0
             /\ e.Fees >= TotalIn(btc.obs.tx) - TotalOut(btc.obs.tx)

\* The event of a transaction whose only input is unresolved, as that of a
\* coinbase transaction: its fees are negative.
C22_NegativeFees ==
    /\ btc.obs.tx # NoTx
    /\ TotalIn(btc.obs.tx) = 0
    /\ \E e \in BtcEventsOfTx : e.Fees = 0 - 2 /\ e.Amount = 2

\* the heights listed are strictly increasing
StrictlyIncreasing(h) == \A i, j \in 1..Len(h) : i < j => h[i] < h[j]

\* the bitcoin goroutine is between the comparison with the cursor and the
\* end of the block it went on to fetch
BtcAtHeight == btc.pc \in {"getHash", "sendHashErr", "getBlock", "sendBlockErr",
                           "txloop", "checkOut", "sendEvent"}

C24_FailedTickEnds ==
    btc.err # NoErr =>
        /\ btc.pc \in {"sendCountErr", "sendHashErr", "sendBlockErr", "tick"}
        /\ btc.obs = NoBlock
        /\ btc.ev = NoEvent

\* What holds of the code: after a failed GetBlockHash or GetBlock no event
\* is sent, but the goroutine goes on in the tick and ends in a panic; after
\* a failed GetBlockCount the tick ends unless the cursor is below 0.
C24_WhatFollowsFailure ==
    /\ btc.err \in {"failed to get block hash", "failed to get block info"} =>
          /\ btc.pc \in {"sendHashErr", "getBlock", "sendBlockErr", "panic"}
          /\ btc.obs = NoBlock
          /\ btc.ev = NoEvent
    /\ (btc.err = "failed to get block count" /\ btc.tip0 > 0) =>
          /\ btc.pc \in {"sendCountErr", "tick"}
          /\ btc.obs = NoBlock
          /\ btc.ev = NoEvent
    /\ btc.pc = "panic" => btc.err = "failed to get block info"

\* Where the code goes instead: the error of the block fetch has been sent
\* and the goroutine has panicked on the nil block.
C24_PanicAfterBlockError ==
    /\ btc.err = "failed to get block info"
    /\ btc.pc = "panic"
    /\ btc.hashOk

\* the string is written in base58 digits only and the bytes it writes are
\* fewer or more than a public key has
WrongLengthBase58(w) ==
    /\ \A i \in 1..Len(w) : \E d \in 1..Len(Base58Alphabet) : Base58Alphabet[d] = w[i]
    /\ Len(Base58Decode(w).bytes) # PublicKeyLength

\* C25: the solana subscriber's Track and Untrack accept an address only if
\* it base58-decodes to exactly as many bytes as a public key has: a call
\* that returned nil was given such an address, and a base58 string of
\* another length is answered with an error and leaves every registry as it
\* was.
C25_SolanaKeyLength ==
    [][ ( /\ lastCall'.op \in {"track", "untrack"}
          /\ lastCall'.inst # NoSub
          /\ lastCall'.chain = SolanaMainnet )
        => /\ lastCall'.err = NoErr =>
                /\ Base58Decode(lastCall'.wallet).err = NoErr
                /\ Len(Base58Decode(lastCall'.wallet).bytes) = PublicKeyLength
           /\ WrongLengthBase58(lastCall'.wallet) =>
                (lastCall'.err # NoErr /\ reg' = reg) ]_vars

\* What holds of the code: a base58 string of any length is accepted, and
\* the key added or removed is the one PublicKeyFromBytes makes of its bytes.
C25_AnyLengthAccepted ==
    [][ ( /\ lastCall'.op \in {"track", "untrack"}
          /\ lastCall'.inst # NoSub
          /\ lastCall'.chain = SolanaMainnet
          /\ Base58Decode(lastCall'.wallet).err = NoErr )
        => LET k == PublicKeyFromBytes(Base58Decode(lastCall'.wallet).bytes)
           IN  /\ lastCall'.err = NoErr
               /\ reg'[lastCall'.inst] =
                    IF lastCall'.op = "track" THEN reg[lastCall'.inst] \cup {k}
                    ELSE reg[lastCall'.inst] \ {k} ]_vars

\* TrackWallet("jma"), three bytes, returned nil and the registry holds the
\* first two of them.
C25_LongKeyCut ==
    /\ lastCall.op = "track"
    /\ lastCall.wallet = <<"j","m","a">>
    /\ lastCall.err = NoErr
    /\ \E k \in reg[lastCall.inst] : k = SubSeq(Base58Decode(<<"j","m","a">>).bytes, 1, 2)

\* The tuples of a request whose wallet field is not empty, in order
NonEmptyTuples(req) == SelectSeq(req, LAMBDA t : Len(t[1]) > 0)

\* The registries after the tracker calls 1..k of the request, made one after
\* another on the registries regs
RECURSIVE AfterCalls(_, _, _)
AfterCalls(regs, a, k) ==
    IF k = 0 THEN regs
    ELSE LET c == a.calls[k]
             R == AfterCalls(regs, a, k - 1)
         IN  IF a.op = "POST"
             THEN MgrTrackWallet(subs, R, c.wallet, c.chain).reg
             ELSE MgrUntrackWallet(subs, R, c.wallet, c.chain).reg

\* The request has been answered after the body was parsed
Answered == api.pc = "done" /\ api.req # <<>>

\* C26: the tracker calls issued for a request are its non-empty wallet
\* fields in the order ethereum, bitcoin, solana, up to and including the
\* first call that fails: an empty field causes no call, no call follows a
\* failed one, the registries are those the issued calls left (nothing is
\* rolled back), a failed call is answered with 400 and the body naming its
\* chain, and 200 "OK" is answered only when every non-empty field was
\* forwarded and every call succeeded.
C26_HandlerCalls ==
    LET want == NonEmptyTuples(api.req)
        n == Len(api.calls)
    IN  /\ n <= Len(want)
        /\ \A k \in 1..n : /\ api.calls[k].wallet = want[k][1]
                           /\ api.calls[k].chain = want[k][2]
                           /\ k < n => api.calls[k].err = NoErr
        /\ reg = AfterCalls(api.before, api, n)
        /\ (api.pc = "loop" /\ n > 0) => api.calls[n].err = NoErr
        /\ Answered =>
             /\ api.status \in {200, 400}
             /\ api.status = 200 <=>
                  (n = Len(want) /\ \A k \in 1..n : api.calls[k].err = NoErr)
             /\ api.status = 200 => api.body = <<"OK">>
             /\ api.status = 400 =>
                  /\ n > 0 /\ api.calls[n].err # NoErr
                  /\ api.body = FailureBody(api.op, api.calls[n].chain)

\* A request with three wallets whose bitcoin wallet is rejected: the
\* ethereum wallet stays tracked, solana is not attempted, 400 names bitcoin.
C26_Witness ==
    /\ Answered /\ api.op = "POST" /\ api.status = 400
    /\ \A k \in 1..3 : Len(api.req[k][1]) > 0
    /\ Len(api.calls) = 2
    /\ api.calls[1].err = NoErr /\ api.calls[2].err # NoErr
    /\ api.body = <<"failed to register wallet tracking for", Bitcoin>>
    /\ reg # api.before
    /\ subs[SolanaMainnet] # NoSub /\ reg[subs[SolanaMainnet]] = {}

\* A DELETE request with an empty ethereum field answered with 200: two calls
C26_EmptyFieldSkipped ==
    /\ Answered /\ api.op = "DELETE" /\ api.status = 200
    /\ api.req[1][1] = <<>>
    /\ Len(api.calls) = 2

\* The ethereum goroutine is about to send the event of the transaction it
\* took from the block
EvmEventPending == evm.pc = "sendEvent" /\ evm.obs.tx # NoTx

\* C27: the fees of an event the ethereum subscriber emits are the exact
\* product of the gas price and the gas limit, a non-negative integer, for
\* every gas price and gas limit.
C27_ExactFees ==
    EvmEventPending =>
        /\ evm.ev.Fees = evm.obs.tx.gasPrice * evm.obs.tx.gas
        /\ evm.ev.Fees >= 0

\* What holds of the code: the fees are the product reduced to a word of
\* WordBits bits and read as a signed number; they are the exact product
\* when it is below 2^(WordBits-1).
C27_WordFees ==
    EvmEventPending =>
        LET product == evm.obs.tx.gasPrice * evm.obs.tx.gas
            half == 2 ^ (WordBits - 1)
        IN  /\ (evm.ev.Fees - product) % (2 * half) = 0
            /\ 0 - half <= evm.ev.Fees /\ evm.ev.Fees < half
            /\ product < half => evm.ev.Fees = product

\* An event with negative fees: the product is above the largest int64
C27_NegativeFees == EvmEventPending /\ evm.ev.Fees < 0

\* An event with fees that are positive and not the product: the product is
\* above the largest uint64
C27_WrappedFees ==
    /\ EvmEventPending
    /\ evm.obs.tx.gasPrice * evm.obs.tx.gas >= 2 ^ WordBits
    /\ evm.ev.Fees >= 0
    /\ evm.ev.Fees # evm.obs.tx.gasPrice * evm.obs.tx.gas

\* The ethereum goroutine has taken a transaction whose sender types.Sender
\* did not recover
SenderNotRecovered == evm.obs.tx # NoTx /\ evm.obs.tx.from = NoAddr

\* C28: a failed block fetch leaves the ethereum goroutine at its select
\* with no event placed or pending and nothing sent or about to be sent on
\* the errors channel; a transaction whose sender is not recovered yields no
\* event and the goroutine stays in the loop over the transactions; the step
\* after it takes the next transaction or ends the block.
C28_EvmSkips ==
    /\ [](SenderNotRecovered =>
            /\ evm.pc = "txloop"
            /\ evm.ev = NoEvent
            /\ evm.obs.sent = <<>>)
    /\ [][ /\ (evm.pc = "select" /\ ~evm.fetchFailed /\ evm'.fetchFailed) =>
                evm' = [evm EXCEPT !.fetchFailed = TRUE]
           /\ (SenderNotRecovered
                 /\ (evm'.pc # evm.pc \/ evm'.obs.ntx # evm.obs.ntx)) =>
                /\ evm'.errs = evm.errs
                /\ evm'.obs.blkSent \in {0, evm.obs.blkSent}
                /\ \/ evm'.pc \in {"txloop", "sendEvent", "panic"}
                      /\ evm'.obs.ntx = evm.obs.ntx + 1
                   \/ evm'.pc = "select" /\ evm'.obs = NoBlock ]_vars

\* After a failed block fetch the event of a later header's transaction is
\* about to be sent, and a transaction whose sender was not recovered came
\* before it in the block.
C28_Witness ==
    /\ evm.fetchFailed
    /\ evm.pc = "sendEvent"
    /\ evm.skipped = 1
    /\ evm.obs.ntx = 2
    /\ evm.errs = 0

\* The goroutine g (of the ethereum or the bitcoin subscriber) makes a step
\* of its own: its position or its place in the block changes.
Moves(g, h) == h.pc # g.pc \/ h.obs.ntx # g.obs.ntx \/ h.obs.blkSent # g.obs.blkSent

\* What the steps of a goroutine g to h keep of the order of a block: a
\* pending event is taken by the receiver before anything else happens; the
\* events placed grow by the pending event only; the transactions are taken
\* one after the other, and a block is left or entered with no event pending.
InBlockOrder(g, h) ==
    /\ g.pc = "sendEvent" =>
         /\ h.pc # "sendEvent"
         /\ h.obs.ntx = g.obs.ntx /\ h.obs.tx = g.obs.tx
         /\ h.obs.sent = Append(g.obs.sent, g.ev)
         /\ h.obs.blkSent = g.obs.blkSent + 1
    /\ g.pc # "sendEvent" =>
         /\ h.obs.blkSent \in {g.obs.blkSent, 0}
         /\ h.obs.ntx \in {g.obs.ntx, g.obs.ntx + 1, 0}
         /\ h.obs.ntx = g.obs.ntx => (h.obs.tx = g.obs.tx /\ h.obs.sent = g.obs.sent)
         /\ h.obs.ntx = g.obs.ntx + 1 => (g.pc = "txloop" /\ h.obs.sent = <<>>)
         /\ (h.obs.ntx = 0 /\ g.obs.ntx > 0) => (g.pc = "txloop" /\ h.obs = NoBlock)

\* C29: in the ethereum and the bitcoin subscriber an event that is pending
\* on the events channel is an event of the transaction in progress (for
\* bitcoin, of its output in progress); the goroutine takes no step until the
\* receiver has taken it; the transactions of a block are taken in order and
\* the block is left only from the loop over the transactions, with no event
\* pending: the events of a block reach the channel in transaction order and
\* before any event of a block processed later.
C29_EmissionOrder ==
    /\ [](/\ evm.ev # NoEvent <=> evm.pc = "sendEvent"
          /\ evm.pc = "sendEvent" =>
               /\ evm.obs.tx # NoTx
               /\ evm.ev.Source = AddressString(evm.obs.tx.from)
               /\ evm.ev.Destination = AddressString(evm.obs.tx.to)
          /\ btc.ev # NoEvent <=> btc.pc = "sendEvent"
          /\ btc.pc = "sendEvent" =>
               /\ btc.obs.tx # NoTx
               /\ btc.i \in 1..Len(outWallets(btc.obs.tx))
               /\ btc.ev = BtcEvent(btc.obs.tx, btc.i)
               /\ Len(btc.obs.sent) < btc.i)
    /\ [][ /\ Moves(evm, evm') => InBlockOrder(evm, evm')
           /\ Moves(btc, btc') =>
                /\ InBlockOrder(btc, btc')
                /\ (btc'.obs.ntx = btc.obs.ntx /\ btc.pc \in {"checkOut", "sendEvent"}) =>
                     \/ btc'.pc \in {"checkOut", "sendEvent"} /\ btc'.i >= btc.i
                     \/ btc'.pc = "txloop" /\ btc'.i = 0 ]_vars

\* The bitcoin goroutine, in the second block it processes, has had an event
\* of the block received and has the event of the second transaction pending.
C29_Witness ==
    /\ Len(btc.heights) = 2
    /\ btc.pc = "sendEvent"
    /\ btc.obs.ntx = 2
    /\ btc.obs.blkSent >= 1

\* The ethereum goroutine has the event of the second transaction of a block
\* pending after the event of the first was received.
C29_EvmWitness ==
    /\ evm.pc = "sendEvent"
    /\ evm.obs.ntx = 2
    /\ evm.obs.blkSent = 1

\* The events of a transaction in the order C30 gives: one for each tracked
\* account whose balance fell, in account order, then one for each tracked
\* account whose balance rose, in account order.
SendersThenRecipients(tx, R) == SenderEvents(tx, R) \o RecipientEvents(tx, R, tx.fee)

\* The events of the transaction of slot s placed on the channel or about to
\* be placed
SolEmitted(s) ==
    IF wk[s].pc = "send" THEN Append(wk[s].obs.sent, wk[s].ev) ELSE wk[s].obs.sent

\* a is the beginning of b
Begins(a, b) == Len(a) <= Len(b) /\ SubSeq(b, 1, Len(a)) = a

\* C30: the events a fetchBlock goroutine emits for a transaction are, in
\* this order, the sender events in account order and then the recipient
\* events in account order: what is emitted so far is the beginning of that
\* list, and all of it when the goroutine is done with the transaction.  The
\* goroutine takes the transactions of its block one after the other, each
\* after the last event of the one before was placed on the channel.
C30_SlotOrder ==
    /\ [](\A s \in Slots :
            /\ wk[s].ev # NoEvent <=> wk[s].pc = "send"
            /\ (wk[s].obs.tx # NoTx /\ wk[s].pc # "panic") =>
                 LET exp == SendersThenRecipients(wk[s].obs.tx, reg["sol1"])
                 IN  /\ Begins(SolEmitted(s), exp)
                     /\ wk[s].pc = "txloop" => wk[s].obs.sent = exp)
    /\ [][\A s \in Slots :
            (wk'[s].pc # wk[s].pc \/ wk'[s].obs.ntx # wk[s].obs.ntx) =>
               /\ wk[s].pc = "send" =>
                    /\ wk'[s].obs.ntx = wk[s].obs.ntx /\ wk'[s].obs.tx = wk[s].obs.tx
                    /\ wk'[s].obs.sent = Append(wk[s].obs.sent, wk[s].ev)
               /\ wk'[s].obs.ntx # wk[s].obs.ntx =>
                    /\ wk[s].pc = "txloop"
                    /\ \/ wk'[s].obs.ntx = wk[s].obs.ntx + 1 /\ wk'[s].obs.sent = <<>>
                       \/ wk'[s].pc = "done" /\ wk'[s].obs = NoBlock ]_vars

\* Of the goroutines the tick launched, the one of slot 1 has placed an event
\* on the channel and the one of slot 0 is about to place its first.
C30_LaterSlotFirst ==
    /\ wk[1].obs.blkSent >= 1
    /\ wk[0].pc = "send" /\ wk[0].obs.blkSent = 0

\* The other order: slot 0 has placed an event, slot 1 is about to place its
\* first.
C30_EarlierSlotFirst ==
    /\ wk[0].obs.blkSent >= 1
    /\ wk[1].pc = "send" /\ wk[1].obs.blkSent = 0

\* A goroutine has emitted, for the second transaction of its block, the
\* events of its two senders in account order, after an event of the first.
C30_TwoSenders ==
    \E s \in Slots :
        /\ wk[s].obs.ntx = 2
        /\ Len(wk[s].obs.sent) = 2
        /\ wk[s].obs.sent[1].Source = <<"1", "2">>
        /\ wk[s].obs.sent[2].Source = <<"A", "h">>
        /\ wk[s].obs.blkSent >= 3

----------------------------------------------------------------------------
(* Properties of StartAll *)

\* the events subscriber c has placed on its events channel, in order
Placed(c) == [i \in 1..prod[c].n |-> i]

IsPrefix(s, t) == Len(s) <= Len(t) /\ \A i \in 1..Len(s) : s[i] = t[i]

\* C3: once StartAll has been called, what the caller has received from the
\* sink, chain by chain, is a prefix of what that chain's subscriber placed on
\* its events channel: no event is forwarded twice, out of order, or invented.
C3_SinkIsPrefix ==
    \A c \in ChainNames : IsPrefix(delivered[c], Placed(c))

\* two events of one subscriber and one of another have come through the sink
C3_Witness ==
    /\ delivered[SolanaMainnet] = <<1, 2>>
    /\ delivered[Bitcoin] = <<1>>

\* An event waits in the events channel of subscriber c while the fan-in
\* goroutine of c is at errCh <- err and StartAll, the only receiver of errCh,
\* has returned.
Stranded(c) ==
    /\ mgr.pc = "returned"
    /\ fan[c].pc = "errCh"
    /\ events[c] # <<>>

\* Nothing a goroutine or the caller can do ends that: the event is never
\* delivered, however the goroutines are scheduled.
StrandedForGood ==
    [][\A c \in ChainNames : Stranded(c) => Stranded(c)']_vars

\* C4: every event a subscriber has placed on its events channel reaches the
\* sink in the end, whatever errors were reported and whether or not StartAll
\* has returned; so no state is reached in which a placed event is stranded,
\* that is, can no longer be received by the fan-in goroutine of its chain.
C4_NoStrandedEvent ==
    \A c \in ChainNames : ~Stranded(c)

\* C5: StartAll calls Start once on each registered subscriber, returns only
\* after a subscriber has sent an error, receives one value from the internal
\* error channel and returns it: the first value forwarded there, never a
\* later one.
C5_StartOnceFirstError ==
    /\ \A c \in ChainNames : mgr.starts[c] <= 1
    /\ mgr.pc \in {"wait", "returned"} =>
         \A c \in ChainNames : mgr.starts[c] = (IF subs[c] # NoSub THEN 1 ELSE 0)
    /\ mgr.pc = "returned" =>
         /\ mgr.sent >= 1
         /\ mgr.got = 1
         /\ mgr.first # NoErr
         /\ mgr.ret = mgr.first
    /\ mgr.pc # "returned" => mgr.got = 0 /\ mgr.ret = NoErr

\* StartAll has returned one subscriber's error and the fan-in goroutine of
\* another holds a later, different error
C5_Witness ==
    /\ mgr.pc = "returned"
    /\ \E c \in ChainNames : fan[c].pc = "errCh" /\ fan[c].err # mgr.ret

\* C6 as stated: StartAll returns only an error of the ethereum
\* subscription.
C6_OnlyEvmTerminal ==
    mgr.pc = "returned" =>
        mgr.ret \in {"failed to subscribe to new head", "subscription error"}

\* C6, amended: what StartAll returns is an error a subscriber sent on its
\* errors channel (the ethereum subscribe or subscription error, a bitcoin
\* block count, block hash or block failure, a failed solana getSlot); a
\* failure that was logged (ethereum block fetch or sender recovery, bitcoin
\* previous transaction, solana block fetch) is never returned.
C6_OnlySentErrors ==
    /\ mgr.pc = "returned" =>
         mgr.ret \in { "failed to subscribe to new head", "subscription error",
                       "failed to get block count", "failed to get block hash",
                       "failed to get block info", "failed to get slot" }
    /\ \A c \in ChainNames : \A i \in 1..Len(prod[c].logged) :
         /\ prod[c].logged[i] \in
              { "failed to get block by number", "failed to recover public key",
                "failed to get raw bitcoin transaction", "failed to fetch block" }
         /\ prod[c].logged[i] # mgr.ret

\* StartAll has returned the solana getSlot failure after another subscriber
\* logged a failure of its own
C6_Witness ==
    /\ mgr.pc = "returned"
    /\ mgr.ret = "failed to get slot"
    /\ \E c \in ChainNames : prod[c].logged # <<>>

\* The polling goroutine of the solana subscriber is at outErrors <- err
\* while the fan-in goroutine, the only receiver of that channel, is at
\* errCh <- err and StartAll, the only receiver of errCh, has returned.
SlotErrorBlocked ==
    /\ prod[SolanaMainnet].pc = "sendErr"
    /\ fan[SolanaMainnet].pc = "errCh"
    /\ mgr.pc = "returned"

\* C31: every failed getSlot is reported on the errors channel and the tick
\* loop goes on to another query; so the polling goroutine is never at its
\* send of the error with nobody left to receive it.
C31_SlotErrorReported == ~SlotErrorBlocked

\* What holds of the code: once the goroutine is blocked in that send it
\* stays there for as long as the process lives, whatever any goroutine
\* does: the error is not reported and no later tick is handled.
C31_BlockedForGood == [][SlotErrorBlocked => (SlotErrorBlocked' \/ Panicked')]_vars

\* What holds of the code: the failures the fan-in goroutine received are at
\* most two while a third is blocked, the first of them is what StartAll
\* returned, and a failure launches no fetchBlock goroutine.
C31_TwoReported ==
    /\ SlotErrorBlocked => (mgr.sent = 2 /\ mgr.ret = "failed to get slot")
    /\ [][(prod[SolanaMainnet].pc = "tick" /\ prod'[SolanaMainnet].pc = "sendErr") =>
             prod'[SolanaMainnet].workers = prod[SolanaMainnet].workers]_vars

----------------------------------------------------------------------------
(* Properties of the registry lock *)

\* who holds the lock, told from the positions: the call holds the write
\* lock exactly between Lock and Unlock, a goroutine holds the read lock
\* exactly between RLock and RUnlock, and never both kinds at once
LockHolders ==
    /\ locks.w <=> locks.call.pc \in {"mutate", "unlock"}
    /\ \A id \in Slots : id \in locks.r <=> locks.g[id].pc \in {"lookup", "runlock"}
    /\ locks.w => locks.r = {}

\* a goroutine that is sending an event holds no lock
SendsUnlocked == \A id \in Slots : locks.g[id].pc = "send" => id \notin locks.r

\* the registry changes only in a step made with the write lock held, and a
\* lookup is answered only in a step made with the read lock held
LockedAccess ==
    /\ reg' # reg => locks.w /\ locks'.w
    /\ \A id \in Slots :
         locks.g[id].pc = "lookup" /\ locks'.g[id].pc # "lookup" =>
            /\ id \in locks.r /\ id \in locks'.r /\ ~locks.w
            /\ locks'.g[id].ok = LockMember
    /\ \A id \in Slots :
         locks'.g[id].ok /\ ~locks.g[id].ok => locks.g[id].pc = "lookup"

\* C32: on every subscriber the registry is changed only with the write
\* lock held and read only with the read lock held, no goroutine holds the
\* read lock while it sends an event, and a TrackWallet or UntrackWallet
\* call always returns, also when no event is ever taken from the channel.
C32_LockDiscipline ==
    /\ [](LockHolders /\ SendsUnlocked)
    /\ [][LockedAccess]_vars
    /\ (locks.call.pc = "lock" ~> locks.call.pc = "idle")

\* a call changed the registry and is about to return while an event of the
\* subscriber waits for its receiver
C32_Witness ==
    /\ locks.call.pc = "unlock"
    /\ \E id \in Slots : locks.g[id].pc = "send"

\* the same with every goroutine of the solana subscriber at its send
C32_AllSending ==
    /\ locks.chain = SolanaMainnet
    /\ locks.call.pc = "unlock"
    /\ \A id \in Slots : locks.g[id].pc = "send"

----------------------------------------------------------------------------
(* Properties of the bitcoin subscriber's matching *)

\* some input of the transaction was paid from an address of R and no output
\* pays to an address of R
SpendOnly(tx, R) ==
    /\ \E j \in 1..Len(tx.ins) :
         tx.ins[j].addr # NoAddr /\ ToLower(tx.ins[j].addr) \in R
    /\ \A i \in 1..Len(tx.outs) :
         tx.outs[i].addr = NoAddr \/ ToLower(tx.outs[i].addr) \notin R

\* the transaction the bitcoin goroutine is processing is a spend from a
\* tracked wallet that pays to no tracked wallet, and no address of its
\* outputs was in the registry at any moment since the block was fetched
BtcSpendInProgress ==
    /\ btc.pc \in {"txloop", "checkOut", "sendEvent"}
    /\ btc.obs.tx # NoTx
    /\ SpendOnly(btc.obs.tx, reg["btc1"])
    /\ btc.obs.dirty \cap BtcMatchKeys(btc.obs.tx) = {}

\* C33: the bitcoin subscriber matches on the outputs only: for a
\* transaction in which a tracked address appears among the inputs and in
\* no output, no event is sent and none is about to be sent.
C33_SpendEmitsNothing ==
    BtcSpendInProgress =>
        /\ btc.obs.sent = <<>>
        /\ btc.ev = NoEvent
        /\ btc.pc # "sendEvent"

\* the goroutine has examined the one output of a transaction with two
\* inputs, one of them from the only tracked wallet
C33_Witness ==
    /\ BtcSpendInProgress
    /\ btc.pc = "txloop"
    /\ reg["btc1"] = {<<"1","a","b">>}
    /\ Len(btc.obs.tx.ins) = 2
    /\ btc.obs.dirty = {}

----------------------------------------------------------------------------
(* Properties of the fan-in goroutines after StartAll returned *)

\* StartAll has returned and the fan-in goroutine of c is at errCh <- err in
\* a process that is alive
Leaked(c) ==
    /\ mgr.pc = "returned"
    /\ fan[c].pc = "errCh"
    /\ ~Panicked

\* C34: once StartAll has returned every fan-in goroutine it launched ends;
\* so no state is reached in which StartAll has returned and a fan-in
\* goroutine is blocked in its send on the internal error channel.
C34_NoLeakedFanIn ==
    \A c \in ChainNames : ~Leaked(c)

\* Only the end of the process ends that: the goroutine stays at its send.
C34_LeakedForGood ==
    [][\A c \in ChainNames : Leaked(c) => (Leaked(c)' \/ Panicked')]_vars

\* A fan-in goroutine that was launched is at its select or at one of its
\* two sends ever after: the loop has no exit.
C34_LoopHasNoExit ==
    [][\A c \in ChainNames :
         fan[c].pc # "none" => fan'[c].pc \in {"select", "sink", "errCh"}]_vars

\* StartAll has returned and no fan-in goroutine is blocked: all of them
\* are in the loop
C34_AllLooping ==
    /\ mgr.pc = "returned"
    /\ \A c \in ChainNames : fan[c].pc = "select"

----------------------------------------------------------------------------
(* Properties of fetchBlock for account lists longer than the balances *)

\* the balance lists of the transaction have the same length and the
\* account list is longer
LongerAccounts(tx) ==
    /\ tx.hasMeta
    /\ Len(tx.pre) = Len(tx.post)
    /\ Len(tx.accounts) > Len(tx.post)

\* fetchBlock has taken such a transaction of its block
TookLongerAccounts(s) ==
    /\ wk[s].obs.ntx > 0
    /\ LongerAccounts(wk[s].obs.tx)

\* C35: for a transaction whose balance lists have the same length and
\* whose account list is longer, fetchBlock reads no balance at an index
\* outside the lists: it does not stop with an index out of range.
C35_NoReadOutOfRange ==
    \A s \in Slots : TookLongerAccounts(s) => wk[s].pc # "panic"

\* What the code does with it: the read for the first account without a
\* balance stops the goroutine before any lookup, so no event is sent for
\* the transaction and none is about to be.
C35_StopsBeforeAnyEvent ==
    \A s \in Slots :
        TookLongerAccounts(s) =>
            /\ wk[s].pc = "panic"
            /\ wk[s].obs.sent = <<>>
            /\ wk[s].ev = NoEvent

\* The same transaction with only the accounts that have balances is
\* processed to its end with the one event the test expects.
C35_CoveredAccounts ==
    \E s \in Slots :
        /\ wk[s].pc = "txloop" /\ wk[s].obs.ntx > 0
        /\ wk[s].obs.tx.accounts = << <<2, 50>>, <<0, 1>> >>
        /\ wk[s].obs.tx.pre = <<9, 1>>
        /\ Len(wk[s].obs.sent) = 1
        /\ wk[s].obs.sent[1].Source = <<"A","h">>

----------------------------------------------------------------------------
(* Properties of RegisterSubscribers: the first failure *)

\* the first argument of the call whose chain is present in the map m or
\* among the arguments before it, or whose Init fails; 0 when there is none
FirstFailure(m, args, failAt) ==
    LET bad == { i \in 1..Len(args) : AlreadyPresent(m, args, i) \/ i = failAt }
    IN  IF bad = {} THEN 0 ELSE CHOOSE i \in bad : \A j \in bad : i <= j

\* C36: RegisterSubscribers takes its arguments in order and stops at the
\* first failure.  With no failure every argument is initialised and
\* registered and the call returns nil.  When the k-th argument is a
\* duplicate or its Init fails the call returns an error, the arguments
\* before the k-th are registered, the subscribers whose Init was called are
\* the arguments before the k-th (and the k-th when it is no duplicate), and
\* the map gains nothing but the arguments before the k-th: a subscriber is
\* in the map only after its Init succeeded.
C36_StopsAtFirstFailure ==
    [][ lastCall'.op = "register" =>
          LET args == lastCall'.args
              k == FirstFailure(subs, args, lastCall'.failAt)
          IN  /\ k = 0 =>
                   /\ lastCall'.err = NoErr
                   /\ lastCall'.inits = args
                   /\ \A i \in 1..Len(args) : subs'[Name(args[i])] = args[i]
              /\ k > 0 =>
                   /\ lastCall'.err # NoErr
                   /\ lastCall'.inits =
                        SubSeq(args, 1, IF AlreadyPresent(subs, args, k) THEN k - 1 ELSE k)
                   /\ \A i \in 1..(k - 1) : subs'[Name(args[i])] = args[i]
                   /\ \A c \in ChainNames :
                        subs'[c] # subs[c] =>
                            \E i \in 1..(k - 1) : args[i] = subs'[c] /\ Name(args[i]) = c
              /\ \A c \in ChainNames : subs[c] # NoSub => subs'[c] = subs[c]
      ]_vars

\* The Init of the second of two subscribers failed: the first is
\* registered, the second is not, and the call returned the error.
C36_Witness ==
    /\ lastCall.op = "register"
    /\ lastCall.args = <<"eth1", "btc1">>
    /\ lastCall.failAt = 2
    /\ lastCall.err = "initializing subscriber"
    /\ lastCall.inits = <<"eth1", "btc1">>
    /\ subs[EthereumMainnet] = "eth1"
    /\ subs[Bitcoin] = NoSub

\* The Init of the first of two subscribers failed: the second was never
\* initialised and neither is registered.
C36_LaterNotInitialised ==
    /\ lastCall.op = "register"
    /\ lastCall.args = <<"sol1", "btc1">>
    /\ lastCall.failAt = 1
    /\ lastCall.inits = <<"sol1">>
    /\ subs = [c \in ChainNames |-> NoSub]

----------------------------------------------------------------------------
(* Properties of UntrackWallet racing with block processing *)

\* the last call was UntrackWallet and it has returned
UntrackReturned == locks.call.op = "untrack" /\ locks.call.pc = "idle"

\* an event is sent only after a lookup that found the wallet, and while the
\* lookup's answer is held under the read lock the wallet is in the registry
JustifiedSends ==
    \A id \in Slots :
        /\ locks.g[id].pc = "send" => locks.g[id].ok
        /\ (locks.g[id].pc = "runlock" /\ locks.g[id].ok) => LockMember

\* an event about to be sent for a wallet that is not in the registry comes
\* from a lookup made before the wallet was deleted
OnlyEarlierChecks ==
    \A id \in Slots :
        (locks.g[id].pc = "send" /\ ~LockMember) => locks.g[id].stale

\* a lookup that starts when the wallet is not in the registry and no call
\* is changing it finds nothing: the goroutine goes on to its next lookup
\* without a send
NoEventAfterUntrack ==
    \A id \in Slots :
        (locks.g[id].pc = "lookup" /\ ~LockMember) =>
            (locks'.g[id].pc # "lookup" => (~locks'.g[id].ok /\ locks'.g[id].pc = "runlock"))

\* C37: every event sent was justified by a lookup that found the wallet
\* under the read lock; a lookup made after the wallet was deleted leads to
\* no event; an event for a deleted wallet is sent only from a lookup that
\* preceded the deletion, and a goroutine sends at most one such event per
\* deletion: the one it was about to send.
C37_UntrackRace ==
    /\ [](locks.chain # NoSub =>
            /\ JustifiedSends
            /\ OnlyEarlierChecks
            /\ \A id \in Slots : locks.g[id].late <= 1)
    /\ [][locks.chain # NoSub => NoEventAfterUntrack]_vars

\* UntrackWallet has returned and a goroutine is still about to send the
\* event of a lookup that preceded it
C37_Witness ==
    /\ UntrackReturned
    /\ \E id \in Slots : locks.g[id].pc = "send" /\ locks.g[id].stale

\* after UntrackWallet returned a goroutine has sent its one late event and
\* its next lookup has found nothing
C37_LateEventSent ==
    /\ UntrackReturned
    /\ \E id \in Slots :
         locks.g[id].late = 1 /\ locks.g[id].pc = "runlock" /\ ~locks.g[id].ok

====
